---- MODULE Spec2Model ----
(***************************************************************************)
(* Model of the cachesim LRU cache simulator (Cache.cpp / Cache.h).        *)
(*                                                                         *)
(* Two classes are modelled: LRUSimpleCache (one level, banked, optional   *)
(* allocate-on-writes-only mode, miss log) and LRUCache (L1 + banked L2).  *)
(* One behaviour of the model is the life of one instance: Init is the     *)
(* state after its constructor, every step is one call of a public method. *)
(*                                                                         *)
(* A 64-bit word (uintptr_t / intptr_t / uint64_t on an LP64 build) is a   *)
(* tuple of four 16-bit chunks, least significant chunk first.  The right  *)
(* shift of the signed intptr_t is the arithmetic shift gcc and clang      *)
(* produce.  Spec issues the addresses 0..MaxLowAddr only.                 *)
(*                                                                         *)
(* The history variables (nCalls, issued, recency, written, ref) record    *)
(* the calls made; no method reads them.                                   *)
(*                                                                         *)
(* Specifications: Spec (one instance, all methods); SpecPair (an LRUCache *)
(* beside two standalone LRUSimpleCache fed the same trace); SpecLines (an *)
(* LRUCache with lines of 2 and 4 bytes, read byte by byte); SpecTwin (an  *)
(* instance beside a twin and beside one never zeroed); SpecCtor (the      *)
(* constructor called with arguments its assertions accept and reject);    *)
(* SpecStats (one instance, its statistics methods and its dumps, with the *)
(* files failing to open or to take the writes); SpecLog (an               *)
(* LRUSimpleCache beside a ledger of its read misses and evictions);       *)
(* SpecQueue (an LRUSimpleCache of one set beside a reference LRU queue);  *)
(* SpecWide (addresses up to 2^64 - 1).                                    *)
(***************************************************************************)
EXTENDS Integers, Sequences, FiniteSets, TLC

(* ------------------------------ bounds -------------------------------- *)

\* number of calls of public methods in one behaviour
MaxCalls == 4

\* byte addresses 0..MaxLowAddr are issued
MaxLowAddr == 2

(* ------------------------- 64-bit word helpers ------------------------ *)

\* width of one chunk of a word: fastHash shifts by 16
ChunkBits == 16

\* number of chunks fastHash folds: the loop bound
NChunks == 4

\* 2 to the power n
Pow2(n) == 2 ^ n

\* 0xffff
ChunkMask == Pow2(ChunkBits) - 1

RECURSIVE BitAnd(_, _)
BitAnd(a, b) ==
    IF a = 0 \/ b = 0 THEN 0
    ELSE (a % 2) * (b % 2) + 2 * BitAnd(a \div 2, b \div 2)

RECURSIVE BitXor(_, _)
BitXor(a, b) ==
    IF a = 0 THEN b
    ELSE IF b = 0 THEN a
    ELSE ((a + b) % 2) + 2 * BitXor(a \div 2, b \div 2)

\* a small natural as a 64-bit word
Word(n) == <<n, 0, 0, 0>>

\* the byte addresses the callers issue
Addrs == {Word(a) : a \in 0..MaxLowAddr}

\* the sign bit of the most significant chunk
SignBit == Pow2(ChunkBits - 1)

\* chunk i of the sign extension of a, read as the signed intptr_t
SignedChunk(a, i) ==
    IF i <= NChunks THEN a[i]
    ELSE IF a[NChunks] >= SignBit THEN ChunkMask ELSE 0

\* chunk i of the signed word a shifted right by k bits, k less than a chunk
ShiftedChunk(a, i, k) ==
    IF k = 0 THEN a[i]
    ELSE (SignedChunk(a, i) \div Pow2(k))
         + (SignedChunk(a, i + 1) % Pow2(k)) * Pow2(ChunkBits - k)

\* (double -> size_t) log2(n): the truncated base-2 logarithm
RECURSIVE Log2(_)
Log2(n) == IF n <= 1 THEN 0 ELSE 1 + Log2(n \div 2)

(* ------------------------- std::list / std::unordered_map ------------- *)

\* A list_t is a sequence of nodes [it, line]: `it' is the identity of the
\* node (what a std::list iterator designates, stable under insertion and
\* removal elsewhere), `line' the stored line_addr_t.
\* A map_t is a function from line addresses to node identities.

EmptyList == << >>
EmptyMap == [k \in {} |-> 0]

ListIts(list) == {list[i].it : i \in 1..Len(list)}
ListLines(list) == {list[i].line : i \in 1..Len(list)}

\* list.erase(it)
ListErase(list, it) == SelectSeq(list, LAMBDA n : n.it # it)

\* the node emplace_back allocates: an identity no live node of the list has
NewIt(list) == CHOOSE i \in 1..(Len(list) + 1) : i \notin ListIts(list)

\* list.emplace_back(line)
ListEmplaceBack(list, line) == Append(list, [it |-> NewIt(list), line |-> line])

\* map.erase(line)
MapErase(map, line) == [k \in (DOMAIN map) \ {line} |-> map[k]]

\* map.emplace(line, it): no effect when the key is present
MapEmplace(map, line, it) ==
    IF line \in DOMAIN map THEN map
    ELSE [k \in (DOMAIN map) \cup {line} |-> IF k = line THEN it ELSE map[k]]

(* ------------------------------ state --------------------------------- *)

VARIABLES
    cache,      \* the class instantiated: "LRUSimpleCache" or "LRUCache"
    cfg,        \* the configuration fields the constructor sets
    s,          \* stats_t s
    misses,     \* SimpleCache::misses, line -> miss_stats_t
    maps,       \* LRUSimpleCache::maps[bank][set]
    lists,      \* LRUSimpleCache::lists[bank][set]
    L1Maps,     \* LRUCache::L1Maps[set]
    L1Lists,    \* LRUCache::L1Lists[set]
    L2Maps,     \* LRUCache::L2Maps[bank][set]
    L2Lists,    \* LRUCache::L2Lists[bank][set]
    nCalls,     \* history: calls of public methods since construction
    issued,     \* history: reads and writes since construction or the last zeroing
    recency,    \* history: the lines accessed, least recently accessed first
    written,    \* history: the lines written since construction
    ref         \* reference instances fed the same calls, and the trace of calls

vars == <<cache, cfg, s, misses, maps, lists, L1Maps, L1Lists, L2Maps, L2Lists,
          nCalls, issued, recency, written, ref>>

(* --------------------------- SimpleCache ------------------------------ *)

\* a double that holds the quotient num / den; 0.0 is <<0, 1>>
Ratio(num, den) == <<num, den>>

\* memset(&s, 0, sizeof(s)) of SimpleCache::stats_t
SimpleZeroStats ==
    [RH |-> 0, RM |-> 0, WH |-> 0, WM |-> 0, computedFinalStats |-> FALSE,
     nR |-> 0, nW |-> 0, nH |-> 0, nM |-> 0, nE |-> 0,
     RHP |-> Ratio(0, 1), RMP |-> Ratio(0, 1), WHP |-> Ratio(0, 1),
     WMP |-> Ratio(0, 1), EP |-> Ratio(0, 1)]

\* mutant: the four access counters are zeroed, the eviction counter is not
SimpleCache_zeroedStats_KeepsEvictions(st) == [SimpleZeroStats EXCEPT !.nE = st.nE]

\* SimpleCache::zeroStatsCounters: memset(&s, 0, sizeof(s))
SimpleCache_zeroedStats(st) == SimpleZeroStats

\* mutant: only the divisibility by the ways is asserted
SimpleCache_asserts_WaysOnly(nLines, nWays, nBanks) == nLines % nWays = 0

\* the assertions of the constructor
SimpleCache_asserts(nLines, nWays, nBanks) ==
    /\ nLines % nWays = 0
    /\ nLines % nBanks = 0

\* the fields SimpleCache::SimpleCache sets
SimpleCache_ctor(nLines, nWays, nBanks, cacheLineNBytes, allocateOnWritesOnly) ==
    [nLines |-> nLines, nWays |-> nWays, nBanks |-> nBanks,
     nSetsPerBank |-> (nLines \div nBanks) \div nWays,
     cacheLineSizeLog2 |-> Log2(cacheLineNBytes),
     allocateOnWritesOnly |-> allocateOnWritesOnly]

\* res ^= 0xffff & tmp; tmp >>= 16, four times; res % maxSize
SimpleCache_fastHash(lineAddr, maxSize) ==
    BitXor(BitXor(lineAddr[1], lineAddr[2]), BitXor(lineAddr[3], lineAddr[4])) % maxSize

\* addr >> cacheLineSizeLog2 on the signed intptr_t (an arithmetic shift),
\* converted to line_addr_t; for shifts of less than one chunk
SimpleCache_addrToLineAddr(addr, cacheLineSizeLog2) ==
    <<ShiftedChunk(addr, 1, cacheLineSizeLog2), ShiftedChunk(addr, 2, cacheLineSizeLog2),
      ShiftedChunk(addr, 3, cacheLineSizeLog2), ShiftedChunk(addr, 4, cacheLineSizeLog2)>>

\* lineAddr & (nSets - 1), for nSets of at most one chunk
SimpleCache_lineToLXSet(lineAddr, nSets) == BitAnd(lineAddr[1], nSets - 1)

\* mutant: an eviction is logged as a read of the victim
logMiss_AlwaysRead(ms, line, isWrite) ==
    IF line \notin DOMAIN ms
    THEN [k \in (DOMAIN ms) \cup {line} |->
            IF k = line THEN [nReads |-> 1, nWrites |-> 0] ELSE ms[k]]
    ELSE [ms EXCEPT ![line].nReads = @ + 1]

\* SimpleCache::logMiss
logMiss(ms, line, isWrite) ==
    IF line \notin DOMAIN ms
    THEN [k \in (DOMAIN ms) \cup {line} |->
            IF k = line
            THEN [nReads |-> IF isWrite THEN 0 ELSE 1,
                  nWrites |-> IF isWrite THEN 1 ELSE 0]
            ELSE ms[k]]
    ELSE IF isWrite
         THEN [ms EXCEPT ![line].nWrites = @ + 1]
         ELSE [ms EXCEPT ![line].nReads = @ + 1]

\* mutant: every call adds the counters to the totals it finds
SimpleCache_computeStats_Accumulates(st) ==
    [st EXCEPT !.nR = @ + st.RH + st.RM, !.nW = @ + st.WH + st.WM,
               !.nH = @ + st.RH + st.WH, !.nM = @ + st.RM + st.WM,
               !.computedFinalStats = TRUE]

\* SimpleCache::computeStats
SimpleCache_computeStats(st) ==
    LET nR == st.RH + st.RM
        nW == st.WH + st.WM
        nM == st.RM + st.WM
    IN [st EXCEPT
          !.nR = nR, !.nW = nW, !.nH = st.RH + st.WH, !.nM = nM,
          !.RHP = IF nR # 0 THEN Ratio(st.RH, nR) ELSE @,
          !.RMP = IF nR # 0 THEN Ratio(st.RM, nR) ELSE @,
          !.WHP = IF nW # 0 THEN Ratio(st.WH, nW) ELSE @,
          !.WMP = IF nW # 0 THEN Ratio(st.WM, nW) ELSE @,
          !.EP = IF nM # 0 THEN Ratio(st.nE, nM) ELSE @,
          !.computedFinalStats = TRUE]

(* -------------------------- LRUSimpleCache ---------------------------- *)

\* The part of the instance touchLine works on: one set's map and list, the
\* stats and the miss log.
Touched(map, list, st, ms) == [map |-> map, list |-> list, s |-> st, misses |-> ms]

\* mutant: the mode is ignored, every access admits
shouldEvict_Always(allocateOnWritesOnly, isWrite) == TRUE

\* mutant: in allocate-on-writes-only mode nothing admits
shouldEvict_ModeOff(allocateOnWritesOnly, isWrite) == ~allocateOnWritesOnly

\* bool shouldEvict = !allocateOnWritesOnly or (allocateOnWritesOnly and isWrite)
shouldEvict(allocateOnWritesOnly, isWrite) ==
    ~allocateOnWritesOnly \/ (allocateOnWritesOnly /\ isWrite)

\* mutant: a resident line is re-appended only by an admitting access
shouldAppend_OnlyAdmitting(evict, wasInCache) == evict

\* mutant: the line is appended whatever the mode
shouldAppend_Always(evict, wasInCache) == TRUE

\* bool shouldAppend = shouldEvict or wasInCache
shouldAppend(evict, wasInCache) == evict \/ wasInCache

\* if (wasInCache): list.erase(map[line]); map.erase(line)
EraseSelf(c, line) ==
    [c EXCEPT !.list = ListErase(c.list, c.map[line]),
              !.map = MapErase(c.map, line)]

\* mutant: the victim leaves the list and stays in the map
EvictHead_KeepsMapEntry(c) ==
    LET otherToEvict == c.list[1].line
    IN [c EXCEPT !.list = ListErase(c.list, c.list[1].it),
                 !.s = [c.s EXCEPT !.nE = @ + 1],
                 !.misses = logMiss(c.misses, otherToEvict, TRUE)]

\* mutant: the eviction is not counted
EvictHead_NotCounted(c) ==
    LET otherToEvict == c.list[1].line
    IN [c EXCEPT !.list = ListErase(c.list, c.list[1].it),
                 !.map = MapErase(c.map, otherToEvict),
                 !.misses = logMiss(c.misses, otherToEvict, TRUE)]

\* mutant: the victim is the node at the lowest address
EvictHead_LowestAddress(c) ==
    LET k == CHOOSE i \in 1..Len(c.list) :
                 \A j \in 1..Len(c.list) : c.list[i].it <= c.list[j].it
        otherToEvict == c.list[k].line
    IN [c EXCEPT !.list = ListErase(c.list, c.list[k].it),
                 !.map = MapErase(c.map, otherToEvict),
                 !.s = [c.s EXCEPT !.nE = @ + 1],
                 !.misses = logMiss(c.misses, otherToEvict, TRUE)]

\* mutant: the eviction is counted twice
EvictHead_CountedTwice(c) ==
    LET otherToEvict == c.list[1].line
    IN [c EXCEPT !.list = ListErase(c.list, c.list[1].it),
                 !.map = MapErase(c.map, otherToEvict),
                 !.s = [c.s EXCEPT !.nE = @ + 2],
                 !.misses = logMiss(c.misses, otherToEvict, TRUE)]

\* else if (map.size() == nWays and shouldEvict): evict the head of the list,
\* count the eviction and log it as a write
EvictHead(c) ==
    LET otherToEvict == c.list[1].line
    IN [c EXCEPT !.list = ListErase(c.list, c.list[1].it),
                 !.map = MapErase(c.map, otherToEvict),
                 !.s = [c.s EXCEPT !.nE = @ + 1],
                 !.misses = logMiss(c.misses, otherToEvict, TRUE)]

\* mutant: the line is put at the front of the list
EmplaceLine_AtFront(c, line) ==
    [c EXCEPT !.list = <<[it |-> NewIt(c.list), line |-> line]>> \o c.list,
              !.map = MapEmplace(c.map, line, NewIt(c.list))]

\* if (shouldAppend): list.emplace_back(line); map.emplace(line, prev(end))
EmplaceLine(c, line) ==
    [c EXCEPT !.list = ListEmplaceBack(c.list, line),
              !.map = MapEmplace(c.map, line, NewIt(c.list))]

\* mutant: a miss on a full set evicts whatever the mode, also when the line
\* is not admitted
LRUSimpleCache_touchLine_AlwaysEvicts(line, c, nWays, allocateOnWritesOnly, isWrite) ==
    LET wasInCache == line \in DOMAIN c.map
        evict == shouldEvict(allocateOnWritesOnly, isWrite)
        append == shouldAppend(evict, wasInCache)
        c1 == IF wasInCache THEN EraseSelf(c, line)
              ELSE IF Cardinality(DOMAIN c.map) = nWays THEN EvictHead(c)
              ELSE c
        c2 == IF append THEN EmplaceLine(c1, line) ELSE c1
        c3 == IF ~wasInCache /\ ~isWrite
              THEN [c2 EXCEPT !.misses = logMiss(c2.misses, line, FALSE)]
              ELSE c2
    IN [after |-> c3, wasInCache |-> wasInCache]

\* LRUSimpleCache::touchLine: the instance part after the call, and the
\* value returned
LRUSimpleCache_touchLine(line, c, nWays, allocateOnWritesOnly, isWrite) ==
    LET wasInCache == line \in DOMAIN c.map
        evict == shouldEvict(allocateOnWritesOnly, isWrite)
        append == shouldAppend(evict, wasInCache)
        c1 == IF wasInCache THEN EraseSelf(c, line)
              ELSE IF Cardinality(DOMAIN c.map) = nWays /\ evict THEN EvictHead(c)
              ELSE c
        c2 == IF append THEN EmplaceLine(c1, line) ELSE c1
        c3 == IF ~wasInCache /\ ~isWrite
              THEN [c2 EXCEPT !.misses = logMiss(c2.misses, line, FALSE)]
              ELSE c2
    IN [after |-> c3, wasInCache |-> wasInCache]

\* mutant: the two arms of each conditional are exchanged
RecordAccess_Swapped(st, isWrite, wasHit) ==
    IF ~isWrite
    THEN IF wasHit THEN [st EXCEPT !.RM = @ + 1] ELSE [st EXCEPT !.RH = @ + 1]
    ELSE IF wasHit THEN [st EXCEPT !.WM = @ + 1] ELSE [st EXCEPT !.WH = @ + 1]

\* mutant: a hit is counted as a read hit whatever the access
RecordAccess_HitAsRead(st, isWrite, wasHit) ==
    IF wasHit THEN [st EXCEPT !.RH = @ + 1]
    ELSE IF ~isWrite THEN [st EXCEPT !.RM = @ + 1] ELSE [st EXCEPT !.WM = @ + 1]

\* if (!isWrite) wasHit ? ++s.RH : ++s.RM; else wasHit ? ++s.WH : ++s.WM
RecordAccess(st, isWrite, wasHit) ==
    IF ~isWrite
    THEN IF wasHit THEN [st EXCEPT !.RH = @ + 1] ELSE [st EXCEPT !.RM = @ + 1]
    ELSE IF wasHit THEN [st EXCEPT !.WH = @ + 1] ELSE [st EXCEPT !.WM = @ + 1]

\* the set of lines resident in a set
Resident(map) == DOMAIN map

\* the coordinates access() derives from an address
SimpleLine(addr) == SimpleCache_addrToLineAddr(addr, cfg.cacheLineSizeLog2)
SimpleSet(line) == SimpleCache_lineToLXSet(line, cfg.nSetsPerBank)
SimpleBank(line) == SimpleCache_fastHash(line, cfg.nBanks)

(* ------------------------------- Cache -------------------------------- *)

\* memset(&s, 0, sizeof(s)) of Cache::stats_t
CacheZeroStats ==
    [L1RH |-> 0, L2RH |-> 0, L2RM |-> 0, L1WH |-> 0, L2WH |-> 0, L2WM |-> 0,
     computedFinalStats |-> FALSE, nR |-> 0, nW |-> 0,
     L1RHP |-> Ratio(0, 1), L2RHP |-> Ratio(0, 1), L2RMP |-> Ratio(0, 1),
     L1WHP |-> Ratio(0, 1), L2WHP |-> Ratio(0, 1), L2WMP |-> Ratio(0, 1)]

\* Cache::zeroStatsCounters: memset(&s, 0, sizeof(s))
Cache_zeroedStats(st) == CacheZeroStats

\* the assertions of the constructor
Cache_asserts(L1NLines, L1NWays, L2NLines, L2NWays, L2NBanks) ==
    /\ L1NLines % L1NWays = 0
    /\ L2NLines % L2NWays = 0
    /\ L2NLines % L2NBanks = 0

\* the fields Cache::Cache sets
Cache_ctor(L1NLines, L1NWays, L2NLines, L2NWays, L2NBanks, cacheLineNBytes) ==
    [L1NLines |-> L1NLines, L1NWays |-> L1NWays,
     L1NSets |-> L1NLines \div L1NWays,
     L2NLines |-> L2NLines, L2NWays |-> L2NWays, L2NBanks |-> L2NBanks,
     L2NSetsPerBank |-> (L2NLines \div L2NBanks) \div L2NWays,
     cacheLineSizeLog2 |-> Log2(cacheLineNBytes)]

Cache_fastHash(lineAddr, maxSize) ==
    BitXor(BitXor(lineAddr[1], lineAddr[2]), BitXor(lineAddr[3], lineAddr[4])) % maxSize

\* mutant: the byte address is taken as the line address
Cache_addrToLineAddr_NoShift(addr, cacheLineSizeLog2) == addr

Cache_addrToLineAddr(addr, cacheLineSizeLog2) ==
    <<ShiftedChunk(addr, 1, cacheLineSizeLog2), ShiftedChunk(addr, 2, cacheLineSizeLog2),
      ShiftedChunk(addr, 3, cacheLineSizeLog2), ShiftedChunk(addr, 4, cacheLineSizeLog2)>>

Cache_lineToLXSet(lineAddr, nSets) == BitAnd(lineAddr[1], nSets - 1)

\* mutant: a line that misses in a full set is not installed
Cache_touchLine_BypassWhenFull(line, map, list, nWays) ==
    LET wasInCache == line \in DOMAIN map
        list1 == IF wasInCache THEN ListErase(list, map[line]) ELSE list
        map1 == IF wasInCache THEN MapErase(map, line) ELSE map
    IN IF ~wasInCache /\ Cardinality(DOMAIN map) = nWays
       THEN [map |-> map, list |-> list, wasInCache |-> wasInCache]
       ELSE [map |-> MapEmplace(map1, line, NewIt(list1)),
             list |-> ListEmplaceBack(list1, line),
             wasInCache |-> wasInCache]

\* mutant: a set of more than one way evicts one line early
Cache_touchLine_OneWayShort(line, map, list, nWays) ==
    LET wasInCache == line \in DOMAIN map
        full == /\ Cardinality(DOMAIN map) > 0
                /\ Cardinality(DOMAIN map) >= nWays - 1
        list1 == IF wasInCache THEN ListErase(list, map[line])
                 ELSE IF full THEN ListErase(list, list[1].it)
                 ELSE list
        map1 == IF wasInCache THEN MapErase(map, line)
                ELSE IF full THEN MapErase(map, list[1].line)
                ELSE map
    IN [map |-> MapEmplace(map1, line, NewIt(list1)),
        list |-> ListEmplaceBack(list1, line),
        wasInCache |-> wasInCache]

\* mutant: a full set grows instead of evicting
Cache_touchLine_NeverEvicts(line, map, list, nWays) ==
    LET wasInCache == line \in DOMAIN map
        list1 == IF wasInCache THEN ListErase(list, map[line]) ELSE list
        map1 == IF wasInCache THEN MapErase(map, line) ELSE map
    IN [map |-> MapEmplace(map1, line, NewIt(list1)),
        list |-> ListEmplaceBack(list1, line),
        wasInCache |-> wasInCache]

\* Cache::touchLine: the set's map and list after the call, and the value
\* returned
Cache_touchLine(line, map, list, nWays) ==
    LET wasInCache == line \in DOMAIN map
        list1 == IF wasInCache THEN ListErase(list, map[line])
                 ELSE IF Cardinality(DOMAIN map) = nWays
                      THEN ListErase(list, list[1].it)
                      ELSE list
        map1 == IF wasInCache THEN MapErase(map, line)
                ELSE IF Cardinality(DOMAIN map) = nWays
                     THEN MapErase(map, list[1].line)
                     ELSE map
    IN [map |-> MapEmplace(map1, line, NewIt(list1)),
        list |-> ListEmplaceBack(list1, line),
        wasInCache |-> wasInCache]

\* mutant: an L1 hit that is also an L2 hit advances both hit counters
CacheRecordAccess_BothLevels(st, isWrite, wasL1Hit, wasL2Hit) ==
    LET l1 == IF wasL1Hit
              THEN IF isWrite THEN [st EXCEPT !.L1WH = @ + 1]
                   ELSE [st EXCEPT !.L1RH = @ + 1]
              ELSE st
    IN IF wasL2Hit
       THEN IF isWrite THEN [l1 EXCEPT !.L2WH = @ + 1]
            ELSE [l1 EXCEPT !.L2RH = @ + 1]
       ELSE IF wasL1Hit THEN l1
       ELSE IF isWrite THEN [l1 EXCEPT !.L2WM = @ + 1]
       ELSE [l1 EXCEPT !.L2RM = @ + 1]

\* mutant: residency in L2 is looked at before residency in L1
CacheRecordAccess_L2First(st, isWrite, wasL1Hit, wasL2Hit) ==
    IF ~isWrite
    THEN IF wasL2Hit THEN [st EXCEPT !.L2RH = @ + 1]
         ELSE IF wasL1Hit THEN [st EXCEPT !.L1RH = @ + 1]
         ELSE [st EXCEPT !.L2RM = @ + 1]
    ELSE IF wasL2Hit THEN [st EXCEPT !.L2WH = @ + 1]
         ELSE IF wasL1Hit THEN [st EXCEPT !.L1WH = @ + 1]
         ELSE [st EXCEPT !.L2WM = @ + 1]

\* wasL1Hit ? ++s.L1xH : wasL2Hit ? ++s.L2xH : ++s.L2xM
CacheRecordAccess(st, isWrite, wasL1Hit, wasL2Hit) ==
    IF ~isWrite
    THEN IF wasL1Hit THEN [st EXCEPT !.L1RH = @ + 1]
         ELSE IF wasL2Hit THEN [st EXCEPT !.L2RH = @ + 1]
         ELSE [st EXCEPT !.L2RM = @ + 1]
    ELSE IF wasL1Hit THEN [st EXCEPT !.L1WH = @ + 1]
         ELSE IF wasL2Hit THEN [st EXCEPT !.L2WH = @ + 1]
         ELSE [st EXCEPT !.L2WM = @ + 1]

\* Cache::computeStats
Cache_computeStats(st) ==
    LET nR == st.L1RH + st.L2RH + st.L2RM
        nW == st.L1WH + st.L2WH + st.L2WM
    IN [st EXCEPT
          !.nR = nR, !.nW = nW,
          !.L1RHP = IF nR # 0 THEN Ratio(st.L1RH, nR) ELSE @,
          !.L2RHP = IF nR # 0 THEN Ratio(st.L2RH, nR) ELSE @,
          !.L2RMP = IF nR # 0 THEN Ratio(st.L2RM, nR) ELSE @,
          !.L1WHP = IF nW # 0 THEN Ratio(st.L1WH, nW) ELSE @,
          !.L2WHP = IF nW # 0 THEN Ratio(st.L2WH, nW) ELSE @,
          !.L2WMP = IF nW # 0 THEN Ratio(st.L2WM, nW) ELSE @,
          !.computedFinalStats = TRUE]

\* the coordinates LRUCache::access derives from an address
CacheLine(addr) == Cache_addrToLineAddr(addr, cfg.cacheLineSizeLog2)
CacheL1Set(line) == Cache_lineToLXSet(line, cfg.L1NSets)
CacheL2Bank(line) == Cache_fastHash(line, cfg.L2NBanks)
CacheL2Set(line) == Cache_lineToLXSet(line, cfg.L2NSetsPerBank)

(* --------------------------- configurations --------------------------- *)

\* constructor arguments <<nLines, nWays, nBanks, cacheLineNBytes>> of the
\* single-level instances
SimpleArgs == {<<2, 2, 1, 1>>, <<2, 1, 1, 2>>, <<2, 1, 2, 1>>}

\* constructor arguments <<L1NLines, L1NWays, L2NLines, L2NWays, L2NBanks,
\* cacheLineNBytes>> of the two-level instances
CacheArgs == {<<1, 1, 2, 2, 1, 1>>, <<2, 1, 2, 1, 2, 2>>}

\* a vector of n default-constructed elements
Vector(n, x) == [i \in 0..(n - 1) |-> x]

(* ------------------------------ history ------------------------------- *)

\* the line moved to the end of the order of last accesses
Recent(order, line) == Append(SelectSeq(order, LAMBDA l : l # line), line)

Count(isWrite) ==
    IF isWrite THEN [issued EXCEPT !.writes = @ + 1]
    ELSE [issued EXCEPT !.reads = @ + 1]

NoneIssued == [reads |-> 0, writes |-> 0]

History(line, isWrite) ==
    /\ issued' = Count(isWrite)
    /\ nCalls' = nCalls + 1
    /\ recency' = Recent(recency, line)
    /\ written' = IF isWrite THEN written \cup {line} ELSE written

(* ------------------------------ Init ---------------------------------- *)

\* the instance LRUSimpleCache::LRUSimpleCache leaves, arguments
\* a = <<nLines, nWays, nBanks, cacheLineNBytes>>
LRUSimpleCache_new(a, allocateOnWritesOnly) ==
    /\ cache = "LRUSimpleCache"
    /\ cfg = SimpleCache_ctor(a[1], a[2], a[3], a[4], allocateOnWritesOnly)
    /\ s = SimpleZeroStats
    /\ misses = EmptyMap
    /\ maps = Vector(cfg.nBanks, Vector(cfg.nSetsPerBank, EmptyMap))
    /\ lists = Vector(cfg.nBanks, Vector(cfg.nSetsPerBank, EmptyList))
    /\ L1Maps = << >> /\ L1Lists = << >> /\ L2Maps = << >> /\ L2Lists = << >>

\* the instance LRUCache::LRUCache leaves, arguments
\* a = <<L1NLines, L1NWays, L2NLines, L2NWays, L2NBanks, cacheLineNBytes>>
LRUCache_new(a) ==
    /\ cache = "LRUCache"
    /\ cfg = Cache_ctor(a[1], a[2], a[3], a[4], a[5], a[6])
    /\ s = CacheZeroStats
    /\ L1Maps = Vector(cfg.L1NSets, EmptyMap)
    /\ L1Lists = Vector(cfg.L1NSets, EmptyList)
    /\ L2Maps = Vector(cfg.L2NBanks, Vector(cfg.L2NSetsPerBank, EmptyMap))
    /\ L2Lists = Vector(cfg.L2NBanks, Vector(cfg.L2NSetsPerBank, EmptyList))
    /\ misses = EmptyMap /\ maps = << >> /\ lists = << >>

InitSimple ==
    \E a \in SimpleArgs, allocateOnWritesOnly \in BOOLEAN :
        /\ SimpleCache_asserts(a[1], a[2], a[3])
        /\ LRUSimpleCache_new(a, allocateOnWritesOnly)

InitCache ==
    \E a \in CacheArgs :
        /\ Cache_asserts(a[1], a[2], a[3], a[4], a[5])
        /\ LRUCache_new(a)

\* no call has been made
NoHistory ==
    /\ nCalls = 0
    /\ issued = NoneIssued
    /\ recency = << >>
    /\ written = {}

\* no reference instance is kept
NoRef == << >>

Init ==
    /\ InitSimple \/ InitCache
    /\ NoHistory
    /\ ref = NoRef

(* ----------------------------- actions -------------------------------- *)

\* LRUSimpleCache::access(addr, isWrite)
LRUSimpleCache_access(addr, isWrite) ==
    /\ cache = "LRUSimpleCache"
    /\ nCalls < MaxCalls
    /\ LET lineAddr == SimpleLine(addr)
           set == SimpleSet(lineAddr)
           bank == SimpleBank(lineAddr)
           t == LRUSimpleCache_touchLine(lineAddr,
                    Touched(maps[bank][set], lists[bank][set], s, misses),
                    cfg.nWays, cfg.allocateOnWritesOnly, isWrite)
       IN /\ History(lineAddr, isWrite)
          /\ maps' = [maps EXCEPT ![bank][set] = t.after.map]
          /\ lists' = [lists EXCEPT ![bank][set] = t.after.list]
          /\ misses' = t.after.misses
          /\ s' = RecordAccess(t.after.s, isWrite, t.wasInCache)
    /\ UNCHANGED <<cache, cfg, L1Maps, L1Lists, L2Maps, L2Lists>>

\* mutant: the zeroing also empties every set
SimpleCache_zeroStatsCounters_ClearsSets ==
    /\ cache = "LRUSimpleCache"
    /\ nCalls < MaxCalls
    /\ nCalls' = nCalls + 1
    /\ s' = SimpleCache_zeroedStats(s)
    /\ misses' = EmptyMap
    /\ issued' = NoneIssued
    /\ maps' = Vector(cfg.nBanks, Vector(cfg.nSetsPerBank, EmptyMap))
    /\ lists' = Vector(cfg.nBanks, Vector(cfg.nSetsPerBank, EmptyList))
    /\ UNCHANGED <<cache, cfg, L1Maps, L1Lists, L2Maps, L2Lists,
                   recency, written>>

\* SimpleCache::zeroStatsCounters()
SimpleCache_zeroStatsCounters ==
    /\ cache = "LRUSimpleCache"
    /\ nCalls < MaxCalls
    /\ nCalls' = nCalls + 1
    /\ s' = SimpleCache_zeroedStats(s)
    /\ misses' = EmptyMap
    /\ issued' = NoneIssued
    /\ UNCHANGED <<cache, cfg, maps, lists, L1Maps, L1Lists, L2Maps, L2Lists,
                   recency, written>>

\* SimpleCache::computeStats()
SimpleCache_computeStatsCall ==
    /\ cache = "LRUSimpleCache"
    /\ nCalls < MaxCalls
    /\ nCalls' = nCalls + 1
    /\ s' = SimpleCache_computeStats(s)
    /\ UNCHANGED <<cache, cfg, misses, maps, lists, L1Maps, L1Lists, L2Maps,
                   L2Lists, issued, recency, written>>

\* mutant: L2 is touched only when the line was not in L1
LRUCache_access_L2OnL1Miss(addr, isWrite) ==
    /\ cache = "LRUCache"
    /\ nCalls < MaxCalls
    /\ LET lineAddr == CacheLine(addr)
           L1Set == CacheL1Set(lineAddr)
           L2Bank == CacheL2Bank(lineAddr)
           L2Set == CacheL2Set(lineAddr)
           t1 == Cache_touchLine(lineAddr, L1Maps[L1Set], L1Lists[L1Set],
                                 cfg.L1NWays)
           t2 == IF t1.wasInCache
                 THEN [map |-> L2Maps[L2Bank][L2Set],
                       list |-> L2Lists[L2Bank][L2Set],
                       wasInCache |-> lineAddr \in DOMAIN L2Maps[L2Bank][L2Set]]
                 ELSE Cache_touchLine(lineAddr, L2Maps[L2Bank][L2Set],
                                      L2Lists[L2Bank][L2Set], cfg.L2NWays)
       IN /\ History(lineAddr, isWrite)
          /\ L1Maps' = [L1Maps EXCEPT ![L1Set] = t1.map]
          /\ L1Lists' = [L1Lists EXCEPT ![L1Set] = t1.list]
          /\ L2Maps' = [L2Maps EXCEPT ![L2Bank][L2Set] = t2.map]
          /\ L2Lists' = [L2Lists EXCEPT ![L2Bank][L2Set] = t2.list]
          /\ s' = CacheRecordAccess(s, isWrite, t1.wasInCache, t2.wasInCache)
    /\ UNCHANGED <<cache, cfg, misses, maps, lists>>

\* LRUCache::access(addr, isWrite)
LRUCache_access(addr, isWrite) ==
    /\ cache = "LRUCache"
    /\ nCalls < MaxCalls
    /\ LET lineAddr == CacheLine(addr)
           L1Set == CacheL1Set(lineAddr)
           L2Bank == CacheL2Bank(lineAddr)
           L2Set == CacheL2Set(lineAddr)
           t1 == Cache_touchLine(lineAddr, L1Maps[L1Set], L1Lists[L1Set],
                                 cfg.L1NWays)
           t2 == Cache_touchLine(lineAddr, L2Maps[L2Bank][L2Set],
                                 L2Lists[L2Bank][L2Set], cfg.L2NWays)
       IN /\ History(lineAddr, isWrite)
          /\ L1Maps' = [L1Maps EXCEPT ![L1Set] = t1.map]
          /\ L1Lists' = [L1Lists EXCEPT ![L1Set] = t1.list]
          /\ L2Maps' = [L2Maps EXCEPT ![L2Bank][L2Set] = t2.map]
          /\ L2Lists' = [L2Lists EXCEPT ![L2Bank][L2Set] = t2.list]
          /\ s' = CacheRecordAccess(s, isWrite, t1.wasInCache, t2.wasInCache)
    /\ UNCHANGED <<cache, cfg, misses, maps, lists>>

\* Cache::zeroStatsCounters()
Cache_zeroStatsCounters ==
    /\ cache = "LRUCache"
    /\ nCalls < MaxCalls
    /\ nCalls' = nCalls + 1
    /\ s' = Cache_zeroedStats(s)
    /\ issued' = NoneIssued
    /\ UNCHANGED <<cache, cfg, misses, maps, lists, L1Maps, L1Lists, L2Maps,
                   L2Lists, recency, written>>

\* Cache::computeStats()
Cache_computeStatsCall ==
    /\ cache = "LRUCache"
    /\ nCalls < MaxCalls
    /\ nCalls' = nCalls + 1
    /\ s' = Cache_computeStats(s)
    /\ UNCHANGED <<cache, cfg, misses, maps, lists, L1Maps, L1Lists, L2Maps,
                   L2Lists, issued, recency, written>>

SimpleAccess == \E addr \in Addrs, isWrite \in BOOLEAN : LRUSimpleCache_access(addr, isWrite)

CacheAccess == \E addr \in Addrs, isWrite \in BOOLEAN : LRUCache_access(addr, isWrite)

Next ==
    \/ SimpleAccess /\ UNCHANGED ref
    \/ SimpleCache_zeroStatsCounters /\ UNCHANGED ref
    \/ SimpleCache_computeStatsCall /\ UNCHANGED ref
    \/ CacheAccess /\ UNCHANGED ref
    \/ Cache_zeroStatsCounters /\ UNCHANGED ref
    \/ Cache_computeStatsCall /\ UNCHANGED ref

Spec == Init /\ [][Next]_vars

(* -------------------- instances beside the modelled one --------------- *)

\* A second LRUSimpleCache, held as a record of its fields: the instance its
\* constructor leaves
SimpleInstance(a, allocateOnWritesOnly) ==
    LET c == SimpleCache_ctor(a[1], a[2], a[3], a[4], allocateOnWritesOnly)
    IN [cfg |-> c, s |-> SimpleZeroStats, misses |-> EmptyMap,
        maps |-> Vector(c.nBanks, Vector(c.nSetsPerBank, EmptyMap)),
        lists |-> Vector(c.nBanks, Vector(c.nSetsPerBank, EmptyList))]

\* LRUSimpleCache::access(addr, isWrite) on such an instance
LRUSimpleCache_accessed(inst, addr, isWrite) ==
    LET lineAddr == SimpleCache_addrToLineAddr(addr, inst.cfg.cacheLineSizeLog2)
        set == SimpleCache_lineToLXSet(lineAddr, inst.cfg.nSetsPerBank)
        bank == SimpleCache_fastHash(lineAddr, inst.cfg.nBanks)
        t == LRUSimpleCache_touchLine(lineAddr,
                 Touched(inst.maps[bank][set], inst.lists[bank][set],
                         inst.s, inst.misses),
                 inst.cfg.nWays, inst.cfg.allocateOnWritesOnly, isWrite)
    IN [inst EXCEPT !.maps[bank][set] = t.after.map,
                    !.lists[bank][set] = t.after.list,
                    !.misses = t.after.misses,
                    !.s = RecordAccess(t.after.s, isWrite, t.wasInCache)]

\* A second LRUCache, held as a record of its fields
CacheInstance(a) ==
    LET c == Cache_ctor(a[1], a[2], a[3], a[4], a[5], a[6])
    IN [cfg |-> c, s |-> CacheZeroStats,
        L1Maps |-> Vector(c.L1NSets, EmptyMap),
        L1Lists |-> Vector(c.L1NSets, EmptyList),
        L2Maps |-> Vector(c.L2NBanks, Vector(c.L2NSetsPerBank, EmptyMap)),
        L2Lists |-> Vector(c.L2NBanks, Vector(c.L2NSetsPerBank, EmptyList))]

\* LRUCache::access(addr, isWrite) on such an instance
LRUCache_accessed(inst, addr, isWrite) ==
    LET lineAddr == Cache_addrToLineAddr(addr, inst.cfg.cacheLineSizeLog2)
        L1Set == Cache_lineToLXSet(lineAddr, inst.cfg.L1NSets)
        L2Bank == Cache_fastHash(lineAddr, inst.cfg.L2NBanks)
        L2Set == Cache_lineToLXSet(lineAddr, inst.cfg.L2NSetsPerBank)
        t1 == Cache_touchLine(lineAddr, inst.L1Maps[L1Set], inst.L1Lists[L1Set],
                              inst.cfg.L1NWays)
        t2 == Cache_touchLine(lineAddr, inst.L2Maps[L2Bank][L2Set],
                              inst.L2Lists[L2Bank][L2Set], inst.cfg.L2NWays)
    IN [inst EXCEPT !.L1Maps[L1Set] = t1.map,
                    !.L1Lists[L1Set] = t1.list,
                    !.L2Maps[L2Bank][L2Set] = t2.map,
                    !.L2Lists[L2Bank][L2Set] = t2.list,
                    !.s = CacheRecordAccess(inst.s, isWrite, t1.wasInCache,
                                            t2.wasInCache)]

(* ---- a two-level instance beside two standalone single-level ones ---- *)

\* constructor arguments of the two-level instances of SpecPair
PairArgs == {<<1, 1, 2, 2, 1, 1>>, <<1, 1, 1, 1, 1, 1>>, <<2, 2, 2, 1, 1, 1>>,
             <<1, 1, 2, 1, 2, 1>>}

\* the standalone LRUSimpleCache(L1NLines, L1NWays, 1, cacheLineNBytes, false)
\* and LRUSimpleCache(L2NLines, L2NWays, L2NBanks, cacheLineNBytes, false),
\* and the empty trace
PairRef(a) ==
    [trace |-> << >>,
     l1 |-> SimpleInstance(<<a[1], a[2], 1, a[6]>>, FALSE),
     l2 |-> SimpleInstance(<<a[3], a[4], a[5], a[6]>>, FALSE)]

InitPair ==
    /\ \E a \in PairArgs :
          /\ Cache_asserts(a[1], a[2], a[3], a[4], a[5])
          /\ LRUCache_new(a)
          /\ ref = PairRef(a)
    /\ NoHistory

\* one access of the trace: LRUCache::access on the instance, and
\* LRUSimpleCache::access on each standalone instance
Pair_access(addr, isWrite) ==
    /\ LRUCache_access(addr, isWrite)
    /\ ref' = [trace |-> Append(ref.trace, [addr |-> addr, isWrite |-> isWrite]),
               l1 |-> LRUSimpleCache_accessed(ref.l1, addr, isWrite),
               l2 |-> LRUSimpleCache_accessed(ref.l2, addr, isWrite)]

PairNext == \E addr \in Addrs, isWrite \in BOOLEAN : Pair_access(addr, isWrite)

SpecPair == InitPair /\ [][PairNext]_vars

(* ------- a two-level instance read byte by byte (lines of 2, 4 bytes) -- *)

\* constructor arguments of the two-level instances of SpecLines
LinesArgs == {<<2, 1, 2, 1, 2, 2>>, <<1, 1, 1, 1, 1, 4>>}

\* the byte addresses issued in SpecLines: one more than in Spec
LinesAddrs == {Word(a) : a \in 0..(MaxLowAddr + 1)}

InitLines ==
    /\ \E a \in LinesArgs :
          /\ Cache_asserts(a[1], a[2], a[3], a[4], a[5])
          /\ LRUCache_new(a)
    /\ ref = [trace |-> << >>]
    /\ NoHistory

\* LRUCache::access, and the access appended to the trace
Lines_access(addr, isWrite) ==
    /\ LRUCache_access(addr, isWrite)
    /\ ref' = [trace |-> Append(ref.trace, [addr |-> addr, isWrite |-> isWrite])]

LinesNext == \E addr \in LinesAddrs, isWrite \in BOOLEAN : Lines_access(addr, isWrite)

SpecLines == InitLines /\ [][LinesNext]_vars

(* ---- an instance beside a twin, and beside one that is never zeroed ---- *)

\* the nodes of a list, and the iterators of a map, at other addresses
OtherNodes(list) ==
    [k \in 1..Len(list) |-> [it |-> list[k].it + 1, line |-> list[k].line]]
OtherIts(map) == [l \in DOMAIN map |-> map[l] + 1]

\* An instance whose list nodes lie at other addresses than before: what
\* the allocator hands to one instance it does not hand to another
SimpleElsewhere(inst) ==
    [inst EXCEPT
       !.maps = [b \in DOMAIN inst.maps |->
                   [i \in DOMAIN inst.maps[b] |-> OtherIts(inst.maps[b][i])]],
       !.lists = [b \in DOMAIN inst.lists |->
                    [i \in DOMAIN inst.lists[b] |-> OtherNodes(inst.lists[b][i])]]]

CacheElsewhere(inst) ==
    [inst EXCEPT
       !.L1Maps = [i \in DOMAIN inst.L1Maps |-> OtherIts(inst.L1Maps[i])],
       !.L1Lists = [i \in DOMAIN inst.L1Lists |-> OtherNodes(inst.L1Lists[i])],
       !.L2Maps = [b \in DOMAIN inst.L2Maps |->
                     [i \in DOMAIN inst.L2Maps[b] |-> OtherIts(inst.L2Maps[b][i])]],
       !.L2Lists = [b \in DOMAIN inst.L2Lists |->
                      [i \in DOMAIN inst.L2Lists[b] |->
                          OtherNodes(inst.L2Lists[b][i])]]]

\* SimpleCache::zeroStatsCounters and Cache::zeroStatsCounters on an instance
\* held as a record
SimpleCache_zeroed(inst) ==
    [inst EXCEPT !.s = SimpleCache_zeroedStats(inst.s), !.misses = EmptyMap]
Cache_zeroed(inst) == [inst EXCEPT !.s = Cache_zeroedStats(inst.s)]

\* twin: a second fresh instance with the same configuration, given every
\* call; unzeroed: a third one, given the accesses and no zeroStatsCounters
TwinRef(inst) == [twin |-> inst, unzeroed |-> inst]

InitTwin ==
    /\ \/ \E a \in SimpleArgs, allocateOnWritesOnly \in BOOLEAN :
             /\ SimpleCache_asserts(a[1], a[2], a[3])
             /\ LRUSimpleCache_new(a, allocateOnWritesOnly)
             /\ ref = TwinRef(SimpleInstance(a, allocateOnWritesOnly))
       \/ \E a \in CacheArgs :
             /\ Cache_asserts(a[1], a[2], a[3], a[4], a[5])
             /\ LRUCache_new(a)
             /\ ref = TwinRef(CacheInstance(a))
    /\ NoHistory

Twin_SimpleAccess(addr, isWrite) ==
    /\ LRUSimpleCache_access(addr, isWrite)
    /\ ref' = [twin |-> SimpleElsewhere(
                           LRUSimpleCache_accessed(ref.twin, addr, isWrite)),
               unzeroed |-> LRUSimpleCache_accessed(ref.unzeroed, addr, isWrite)]

Twin_SimpleZero ==
    /\ SimpleCache_zeroStatsCounters
    /\ ref' = [ref EXCEPT !.twin = SimpleCache_zeroed(ref.twin)]

Twin_CacheAccess(addr, isWrite) ==
    /\ LRUCache_access(addr, isWrite)
    /\ ref' = [twin |-> CacheElsewhere(LRUCache_accessed(ref.twin, addr, isWrite)),
               unzeroed |-> LRUCache_accessed(ref.unzeroed, addr, isWrite)]

Twin_CacheZero ==
    /\ Cache_zeroStatsCounters
    /\ ref' = [ref EXCEPT !.twin = Cache_zeroed(ref.twin)]

TwinNext ==
    \/ \E addr \in Addrs, isWrite \in BOOLEAN : Twin_SimpleAccess(addr, isWrite)
    \/ Twin_SimpleZero
    \/ \E addr \in Addrs, isWrite \in BOOLEAN : Twin_CacheAccess(addr, isWrite)
    \/ Twin_CacheZero

SpecTwin == InitTwin /\ [][TwinNext]_vars

(* ------------- constructor calls with arguments of every kind --------- *)

\* constructor arguments <<nLines, nWays, nBanks, cacheLineNBytes>>: a line
\* count the ways, or the banks, do not divide; three sets per bank; lines of
\* three bytes; and arguments with none of these
SimpleCtorArgs ==
    {<<2, 2, 1, 1>>, <<3, 2, 1, 1>>, <<3, 1, 2, 1>>, <<3, 1, 1, 1>>, <<2, 2, 1, 3>>}

\* constructor arguments <<L1NLines, L1NWays, L2NLines, L2NWays, L2NBanks,
\* cacheLineNBytes>>: L1NWays, L2NWays or L2NBanks does not divide its line
\* count; three L1 sets; and arguments with none of these
CacheCtorArgs ==
    {<<1, 1, 2, 2, 1, 1>>, <<3, 2, 2, 2, 1, 1>>, <<1, 1, 3, 2, 1, 1>>,
     <<1, 1, 3, 1, 2, 1>>, <<3, 1, 1, 1, 1, 1>>}

\* a failed assert(): abort() ends the process, no instance exists
Aborted ==
    /\ cache = "aborted"
    /\ cfg = << >> /\ s = << >> /\ misses = << >>
    /\ maps = << >> /\ lists = << >>
    /\ L1Maps = << >> /\ L1Lists = << >> /\ L2Maps = << >> /\ L2Lists = << >>

\* the state after one constructor call, the arguments kept in ref
InitCtor ==
    /\ \/ \E a \in SimpleCtorArgs, allocateOnWritesOnly \in BOOLEAN :
             /\ ref = [class |-> "LRUSimpleCache", args |-> a]
             /\ IF SimpleCache_asserts(a[1], a[2], a[3])
                THEN LRUSimpleCache_new(a, allocateOnWritesOnly)
                ELSE Aborted
       \/ \E a \in CacheCtorArgs :
             /\ ref = [class |-> "LRUCache", args |-> a]
             /\ IF Cache_asserts(a[1], a[2], a[3], a[4], a[5])
                THEN LRUCache_new(a)
                ELSE Aborted
    /\ NoHistory

CtorNext ==
    \/ SimpleAccess /\ UNCHANGED ref
    \/ CacheAccess /\ UNCHANGED ref

SpecCtor == InitCtor /\ [][CtorNext]_vars

(* --------------- the statistics methods and the dumps ----------------- *)

\* printf's "%.2f%%" of ratio * 100: the quotient in hundredths of a percent,
\* rounded to the nearest
Percent(ratio) == (2 * 10000 * ratio[1] + ratio[2]) \div (2 * ratio[2])

\* the line fprintf(f, "Stats not computed yet; computing...\n") prints
NotComputedNotice == [text |-> "Stats not computed yet; computing..."]

\* the line fprintf(f, "------------ Cache Statistics ------------\n") prints
StatsBanner == [text |-> "------------ Cache Statistics ------------"]

\* one line "LABEL\t%zu (%.2f%%)\n" of SimpleCache::dumpTextStats
SimpleStatsLine(label, n, ratio) == [text |-> label, n |-> n, pct |-> Percent(ratio)]

\* one line "LABEL RH: %zu (%.2f%%)    WH: %zu (%.2f%%)\n" of
\* Cache::dumpTextStats
CacheStatsLine(label, rh, rhp, wh, whp) ==
    [text |-> label, RH |-> rh, RHpct |-> Percent(rhp),
     WH |-> wh, WHpct |-> Percent(whp)]

\* mutant: the dump computes the stats on every call
SimpleCache_dumpTextStats_AlwaysComputes(st) ==
    LET st1 == SimpleCache_computeStats(st)
    IN [s |-> st1,
        out |-> <<StatsBanner,
                  SimpleStatsLine("READ_HITS", st1.RH, st1.RHP),
                  SimpleStatsLine("WRITE_HITS", st1.WH, st1.WHP),
                  SimpleStatsLine("READ_MISSES", st1.RM, st1.RMP),
                  SimpleStatsLine("WRITE_MISSES", st1.WM, st1.WMP),
                  SimpleStatsLine("EVICTIONS", st1.nE, st1.EP)>>]

\* SimpleCache::dumpTextStats(FILE *) on a stream that takes every write:
\* the stats it leaves and the lines it prints
SimpleCache_dumpTextStats(st) ==
    LET st1 == IF ~st.computedFinalStats THEN SimpleCache_computeStats(st) ELSE st
    IN [s |-> st1,
        out |-> (IF ~st.computedFinalStats THEN <<NotComputedNotice>> ELSE << >>)
                \o <<StatsBanner,
                     SimpleStatsLine("READ_HITS", st1.RH, st1.RHP),
                     SimpleStatsLine("WRITE_HITS", st1.WH, st1.WHP),
                     SimpleStatsLine("READ_MISSES", st1.RM, st1.RMP),
                     SimpleStatsLine("WRITE_MISSES", st1.WM, st1.WMP),
                     SimpleStatsLine("EVICTIONS", st1.nE, st1.EP)>>]

\* Cache::dumpTextStats(FILE *) on a stream that takes every write
Cache_dumpTextStats(st) ==
    LET st1 == IF ~st.computedFinalStats THEN Cache_computeStats(st) ELSE st
    IN [s |-> st1,
        out |-> (IF ~st.computedFinalStats THEN <<NotComputedNotice>> ELSE << >>)
                \o <<StatsBanner,
                     CacheStatsLine("L1:", st1.L1RH, st1.L1RHP, st1.L1WH, st1.L1WHP),
                     CacheStatsLine("L2:", st1.L2RH, st1.L2RHP, st1.L2WH, st1.L2WHP),
                     CacheStatsLine("Mem:", st1.L2RM, st1.L2RMP, st1.L2WM, st1.L2WMP)>>]

\* the records SimpleCache::dumpBinaryStats writes: (addr, nReads, nWrites)
\* of every entry of the miss log, in the order of the unordered_map, which
\* the model leaves open by keeping them as a set
BinaryRecords(ms) == {<<k, ms[k].nReads, ms[k].nWrites>> : k \in DOMAIN ms}

\* What the environment does to the file of a dump: it takes the writes, it
\* cannot be opened (fopen returns NULL, the ofstream is in the fail state),
\* or it opens and the writes fail.
FileOutcomes == {"written", "cannot open", "cannot write"}

\* a stream the caller hands over is open
StreamOutcomes == {"written", "cannot write"}

\* the last call as the caller saw it: the method, what happened to its
\* file, how the call ended ("returned": a return of the void method;
\* "crashed": the process was ended by a signal), what reached the file, and
\* whether the call before it was of the same method
Call(method, file, ended, out) ==
    [method |-> method, file |-> file, ended |-> ended, out |-> out,
     again |-> ref.method = method]

NoCall == [method |-> "", file |-> "", ended |-> "", out |-> << >>,
           again |-> FALSE]

\* the history a dump leaves: one more call, nothing else
DumpHistory ==
    /\ nCalls < MaxCalls
    /\ nCalls' = nCalls + 1
    /\ UNCHANGED <<issued, recency, written>>

\* the process was ended: no instance is left to call
Crashed ==
    /\ cache' = "crashed"
    /\ UNCHANGED <<cfg, s, misses, maps, lists, L1Maps, L1Lists, L2Maps, L2Lists>>

\* SimpleCache::dumpTextStats(FILE *): the fprintf results are not looked at,
\* so a stream that fails changes what reaches the file and nothing else
SimpleCache_dumpTextStatsStream(file) ==
    /\ cache = "LRUSimpleCache"
    /\ DumpHistory
    /\ LET d == SimpleCache_dumpTextStats(s)
       IN /\ s' = d.s
          /\ ref' = Call("dumpTextStats(FILE *)", file, "returned",
                         IF file = "written" THEN d.out ELSE << >>)
    /\ UNCHANGED <<cache, cfg, misses, maps, lists, L1Maps, L1Lists, L2Maps,
                   L2Lists>>

\* SimpleCache::dumpTextStats(const char *): the result of fopen is not
\* looked at.  On NULL, fprintf(NULL, ...) and fclose(NULL) are undefined:
\* the process is ended at the first fprintf (crash = TRUE), or the C library
\* rejects the NULL stream and the body runs with nothing written.
SimpleCache_dumpTextStatsPath(file, crash) ==
    /\ cache = "LRUSimpleCache"
    /\ DumpHistory
    /\ crash => file = "cannot open"
    /\ IF crash
       THEN /\ Crashed
            /\ ref' = Call("dumpTextStats(path)", file, "crashed", << >>)
       ELSE LET d == SimpleCache_dumpTextStats(s)
            IN /\ s' = d.s
               /\ ref' = Call("dumpTextStats(path)", file, "returned",
                              IF file = "written" THEN d.out ELSE << >>)
               /\ UNCHANGED <<cache, cfg, misses, maps, lists, L1Maps, L1Lists,
                              L2Maps, L2Lists>>

\* SimpleCache::dumpBinaryStats(const char *): an ofstream that failed to
\* open or to write ignores the writes and throws nothing; the method reads
\* the miss log and no other field
SimpleCache_dumpBinaryStats(file) ==
    /\ cache = "LRUSimpleCache"
    /\ DumpHistory
    /\ ref' = Call("dumpBinaryStats", file, "returned",
                   IF file = "written" THEN BinaryRecords(misses) ELSE {})
    /\ UNCHANGED <<cache, cfg, s, misses, maps, lists, L1Maps, L1Lists, L2Maps,
                   L2Lists>>

\* Cache::dumpTextStats(FILE *)
Cache_dumpTextStatsStream(file) ==
    /\ cache = "LRUCache"
    /\ DumpHistory
    /\ LET d == Cache_dumpTextStats(s)
       IN /\ s' = d.s
          /\ ref' = Call("dumpTextStats(FILE *)", file, "returned",
                         IF file = "written" THEN d.out ELSE << >>)
    /\ UNCHANGED <<cache, cfg, misses, maps, lists, L1Maps, L1Lists, L2Maps,
                   L2Lists>>

\* constructor arguments of the instances whose statistics are dumped
StatsSimpleArgs == {<<1, 1, 1, 1>>}
StatsCacheArgs == {<<1, 1, 2, 2, 1, 1>>}

InitStats ==
    /\ \/ \E a \in StatsSimpleArgs, allocateOnWritesOnly \in BOOLEAN :
             /\ SimpleCache_asserts(a[1], a[2], a[3])
             /\ LRUSimpleCache_new(a, allocateOnWritesOnly)
       \/ \E a \in StatsCacheArgs :
             /\ Cache_asserts(a[1], a[2], a[3], a[4], a[5])
             /\ LRUCache_new(a)
    /\ NoHistory
    /\ ref = NoCall

\* a method that writes no file
Called(method) == ref' = Call(method, "", "returned", << >>)

StatsNext ==
    \/ SimpleAccess /\ Called("access")
    \/ SimpleCache_zeroStatsCounters /\ Called("zeroStatsCounters")
    \/ SimpleCache_computeStatsCall /\ Called("computeStats")
    \/ \E file \in StreamOutcomes : SimpleCache_dumpTextStatsStream(file)
    \/ \E file \in FileOutcomes, crash \in BOOLEAN :
           SimpleCache_dumpTextStatsPath(file, crash)
    \/ \E file \in FileOutcomes : SimpleCache_dumpBinaryStats(file)
    \/ CacheAccess /\ Called("access")
    \/ Cache_zeroStatsCounters /\ Called("zeroStatsCounters")
    \/ Cache_computeStatsCall /\ Called("computeStats")
    \/ \E file \in StreamOutcomes : Cache_dumpTextStatsStream(file)

SpecStats == InitStats /\ [][StatsNext]_vars

(* ------------- an instance beside a ledger of its misses -------------- *)

\* A ledger counts events per line: a function from the lines that have a
\* positive count to that count.
NoEvents == << >>

EventCount(ledger, line) == IF line \in DOMAIN ledger THEN ledger[line] ELSE 0

\* one more event for every line of the set
Recorded(ledger, lines) ==
    [k \in (DOMAIN ledger) \cup lines |->
        EventCount(ledger, k) + (IF k \in lines THEN 1 ELSE 0)]

\* ref.readMisses: the read accesses to a line not resident in its set;
\* ref.evictions: the lines that left their set in an access; both since the
\* construction or the last zeroStatsCounters
InitLog ==
    /\ InitSimple
    /\ NoHistory
    /\ ref = [readMisses |-> NoEvents, evictions |-> NoEvents]

Log_access(addr, isWrite) ==
    /\ LRUSimpleCache_access(addr, isWrite)
    /\ LET line == SimpleLine(addr)
           before == Resident(maps[SimpleBank(line)][SimpleSet(line)])
           after == Resident(maps'[SimpleBank(line)][SimpleSet(line)])
       IN ref' = [readMisses |->
                      IF ~isWrite /\ line \notin before
                      THEN Recorded(ref.readMisses, {line})
                      ELSE ref.readMisses,
                  evictions |-> Recorded(ref.evictions, before \ after)]

Log_zero ==
    /\ SimpleCache_zeroStatsCounters
    /\ ref' = [readMisses |-> NoEvents, evictions |-> NoEvents]

LogNext ==
    \/ \E addr \in Addrs, isWrite \in BOOLEAN : Log_access(addr, isWrite)
    \/ Log_zero

SpecLog == InitLog /\ [][LogNext]_vars

(* ----------------------- notions the claims use ----------------------- *)

Simple == cache = "LRUSimpleCache"
TwoLevel == cache = "LRUCache"

SimpleBanks == 0..(cfg.nBanks - 1)
SimpleSets == 0..(cfg.nSetsPerBank - 1)

\* one set is well formed: at most nWays lines, no line twice, the keys of the
\* map are the lines of the list, and each key designates the node that
\* holds it
SetWellFormed(map, list, nWays) ==
    /\ Len(list) <= nWays
    /\ \A i, j \in 1..Len(list) : list[i].line = list[j].line => i = j
    /\ \A i, j \in 1..Len(list) : list[i].it = list[j].it => i = j
    /\ DOMAIN map = ListLines(list)
    /\ Cardinality(DOMAIN map) = Len(list)
    /\ \A k \in DOMAIN map :
          \E i \in 1..Len(list) : list[i].it = map[k] /\ list[i].line = k

\* the position of a line in the order of last accesses
LastAccess(order, line) == CHOOSE i \in 1..Len(order) : order[i] = line

\* the single-level set an address designates
TargetMap(addr) == maps[SimpleBank(SimpleLine(addr))][SimpleSet(SimpleLine(addr))]
TargetList(addr) == lists[SimpleBank(SimpleLine(addr))][SimpleSet(SimpleLine(addr))]
TargetMapAfter(addr) == maps'[SimpleBank(SimpleLine(addr))][SimpleSet(SimpleLine(addr))]
TargetListAfter(addr) == lists'[SimpleBank(SimpleLine(addr))][SimpleSet(SimpleLine(addr))]

WasResident(addr) == SimpleLine(addr) \in Resident(TargetMap(addr))
WasFull(addr) == Cardinality(Resident(TargetMap(addr))) = cfg.nWays

\* counter f of the stats advances by one in the step
Advances(f) == s'[f] = s[f] + 1

\* exactly the counters in `fields' that is `f' advances, the others keep
OnlyAdvances(f, fields) ==
    /\ Advances(f)
    /\ \A g \in fields \ {f} : s'[g] = s[g]

SimpleCounters == {"RH", "RM", "WH", "WM"}
CacheCounters == {"L1RH", "L2RH", "L2RM", "L1WH", "L2WH", "L2WM"}

(* ------------------------------ claims -------------------------------- *)

\* C1: after any sequence of calls, every set (single-level: every
\* maps/lists[bank][set]; two-level: every L1 and L2 set) holds at most
\* `ways' lines, its list holds no line twice, and the keys of its map are
\* exactly the lines of its list, each designating the node holding it.
C1_SetsWellFormed ==
    /\ Simple =>
         \A b \in SimpleBanks, i \in SimpleSets :
            SetWellFormed(maps[b][i], lists[b][i], cfg.nWays)
    /\ TwoLevel =>
         /\ \A i \in DOMAIN L1Maps :
               SetWellFormed(L1Maps[i], L1Lists[i], cfg.L1NWays)
         /\ \A b \in DOMAIN L2Maps : \A i \in DOMAIN L2Maps[b] :
               SetWellFormed(L2Maps[b][i], L2Lists[b][i], cfg.L2NWays)

\* C1 witness: a full two-way set of the single-level cache after an eviction
C1_Witness ==
    /\ Simple
    /\ cfg.nWays = 2
    /\ s.nE >= 1
    /\ \E b \in SimpleBanks, i \in SimpleSets : Len(lists[b][i]) = 2

\* C2: a single-level access is counted as a hit (RH for a read, WH for a
\* write) iff the addressed line was resident in its (bank, set) immediately
\* before the access, and as a miss (RM, WM) otherwise.
C2_Step ==
    \A addr \in Addrs, isWrite \in BOOLEAN :
        LRUSimpleCache_access(addr, isWrite) =>
            /\ WasResident(addr) <=> Advances(IF isWrite THEN "WH" ELSE "RH")
            /\ ~WasResident(addr) <=> Advances(IF isWrite THEN "WM" ELSE "RM")

C2_HitIffResident == [][C2_Step]_vars

\* C2 witness: each of the four outcomes has been counted
C2_Witness ==
    /\ Simple
    /\ s.RH = 1 /\ s.RM = 1 /\ s.WH = 1 /\ s.WM = 1

\* C3: replacement is LRU in both modes: an access that finds its line
\* resident leaves it at the tail (MRU) of its set, and a line an access
\* evicts is the resident line of the set whose last access is older than
\* that of every other resident line of the set.
C3_Step ==
    \A addr \in Addrs, isWrite \in BOOLEAN :
        LRUSimpleCache_access(addr, isWrite) =>
            LET line == SimpleLine(addr)
                before == Resident(TargetMap(addr))
                after == Resident(TargetMapAfter(addr))
                listAfter == TargetListAfter(addr)
            IN /\ line \in before =>
                    /\ Len(listAfter) > 0
                    /\ listAfter[Len(listAfter)].line = line
                    /\ after = before
               /\ \A victim \in before \ after :
                    \A other \in before \ {victim} :
                        LastAccess(recency, victim) < LastAccess(recency, other)

C3_LRU == [][C3_Step]_vars

\* C3 witness: in allocate-on-writes-only mode a two-way set has had a read
\* hit and, with three lines written, an eviction
C3_Witness ==
    /\ Simple
    /\ cfg.allocateOnWritesOnly
    /\ cfg.nWays = 2
    /\ s.RH = 1 /\ s.WM = 3 /\ s.nE = 1

\* C4: every single-level access advances exactly one of RH, RM, WH, WM by
\* one and keeps the other three; RH + RM is the number of reads and WH + WM
\* the number of writes issued since construction or the last zeroing.
C4_Step ==
    /\ \A addr \in Addrs, isWrite \in BOOLEAN :
          LRUSimpleCache_access(addr, isWrite) =>
              \E f \in SimpleCounters : OnlyAdvances(f, SimpleCounters)
    /\ Simple =>
          /\ s'.RH + s'.RM = issued'.reads
          /\ s'.WH + s'.WM = issued'.writes

C4_OneCounter == [][C4_Step]_vars

\* C4 witness: after a zeroing, one read hit and one write miss are counted
C4_Witness ==
    /\ Simple
    /\ nCalls = 4
    /\ issued.reads = 1 /\ issued.writes = 1
    /\ s.RH = 1 /\ s.WM = 1

\* C5: in allocate-on-writes-only mode a read whose line is not resident
\* leaves every set (contents and order) and nE unchanged, also when the
\* target set is full.
C5_Step ==
    \A addr \in Addrs :
        (/\ LRUSimpleCache_access(addr, FALSE)
         /\ cfg.allocateOnWritesOnly
         /\ ~WasResident(addr))
        => /\ maps' = maps
           /\ lists' = lists
           /\ s'.nE = s.nE

C5_ReadMissNoAllocate == [][C5_Step]_vars

\* C5 witness: in allocate-on-writes-only mode the last access was a read of
\* a line that is not resident while its set is full
C5_Witness ==
    /\ Simple
    /\ cfg.allocateOnWritesOnly
    /\ Len(recency) > 0
    /\ LET line == recency[Len(recency)]
           map == maps[SimpleBank(line)][SimpleSet(line)]
       IN /\ line \notin Resident(map)
          /\ Cardinality(Resident(map)) = cfg.nWays
          /\ line \in DOMAIN misses
          /\ misses[line].nReads >= 1

\* C6: a single-level access advances nE by exactly one iff the line is
\* absent, its set holds exactly `ways' lines and the access admits (not
\* allocate-on-writes-only, or a write); every other access keeps nE.
C6_Step ==
    \A addr \in Addrs, isWrite \in BOOLEAN :
        LRUSimpleCache_access(addr, isWrite) =>
            LET evicts == /\ ~WasResident(addr)
                          /\ WasFull(addr)
                          /\ (~cfg.allocateOnWritesOnly \/ isWrite)
            IN s'.nE = IF evicts THEN s.nE + 1 ELSE s.nE

C6_EvictionCount == [][C6_Step]_vars

\* C6 witness: in allocate-on-any-access mode two misses to a full set were
\* two evictions
C6_Witness ==
    /\ Simple
    /\ ~cfg.allocateOnWritesOnly
    /\ s.nE = 2
    /\ s.RM + s.WM = 3

\* C7: in the single-level cache nE <= RM + WM in every reachable state,
\* whatever the interleaving of access, zeroStatsCounters and computeStats.
C7_EvictionsAtMostMisses == Simple => s.nE <= s.RM + s.WM

\* C7 witness: after a zeroing, one miss that evicted, and computeStats:
\* nE equals RM + WM
C7_Witness ==
    /\ Simple
    /\ nCalls = 4
    /\ s.computedFinalStats
    /\ s.nE = 1
    /\ s.RM + s.WM = 1

\* C8: in allocate-on-writes-only mode a single-level cache that has only
\* been read since construction has RH = 0 and nE = 0, and all its sets are
\* empty.
C8_ReadsNeverAdmit ==
    (Simple /\ cfg.allocateOnWritesOnly /\ written = {}) =>
        /\ s.RH = 0
        /\ s.nE = 0
        /\ \A b \in SimpleBanks, i \in SimpleSets :
              maps[b][i] = EmptyMap /\ lists[b][i] = EmptyList

\* C8 witness: only reads so far, and one line was read (and missed) twice
C8_Witness ==
    /\ Simple
    /\ cfg.allocateOnWritesOnly
    /\ written = {}
    /\ \E line \in DOMAIN misses : misses[line].nReads >= 2

\* the lines accessed so far leave every (bank, set) with at most `ways'
\* distinct lines
Fits(order) ==
    \A b \in SimpleBanks, i \in SimpleSets :
        Cardinality({order[k] : k \in {j \in 1..Len(order) :
                        SimpleBank(order[j]) = b /\ SimpleSet(order[j]) = i}})
            <= cfg.nWays

\* C9: in allocate-on-writes-only mode, while every (bank, set) has received
\* at most `ways' distinct lines: a read of a line never written is a read
\* miss, the first write of a line is a write miss that admits it, and every
\* later read or write of the line is a hit.
C9_Step ==
    \A addr \in Addrs, isWrite \in BOOLEAN :
        (/\ LRUSimpleCache_access(addr, isWrite)
         /\ cfg.allocateOnWritesOnly
         /\ Fits(recency'))
        => LET line == SimpleLine(addr)
           IN /\ (line \notin written /\ ~isWrite) =>
                    OnlyAdvances("RM", SimpleCounters)
              /\ (line \notin written /\ isWrite) =>
                    /\ OnlyAdvances("WM", SimpleCounters)
                    /\ line \in Resident(TargetMapAfter(addr))
              /\ line \in written =>
                    OnlyAdvances(IF isWrite THEN "WH" ELSE "RH", SimpleCounters)

C9_WriteAllocateWorkingSet == [][C9_Step]_vars

\* C9 witness: read, write, read, write of one line: RM = WM = RH = WH = 1
C9_Witness ==
    /\ Simple
    /\ cfg.allocateOnWritesOnly
    /\ Len(recency) = 1
    /\ Fits(recency)
    /\ s.RM = 1 /\ s.WM = 1 /\ s.RH = 1 /\ s.WH = 1

\* C10: every two-level access advances exactly one of the six counters by
\* one and keeps the other five, a read one of L1RH, L2RH, L2RM and a write
\* one of L1WH, L2WH, L2WM; L1RH + L2RH + L2RM is the number of reads and
\* L1WH + L2WH + L2WM the number of writes issued since construction or the
\* last zeroing.
C10_Step ==
    /\ \A addr \in Addrs, isWrite \in BOOLEAN :
          LRUCache_access(addr, isWrite) =>
              \E f \in (IF isWrite THEN {"L1WH", "L2WH", "L2WM"}
                        ELSE {"L1RH", "L2RH", "L2RM"}) :
                  OnlyAdvances(f, CacheCounters)
    /\ TwoLevel =>
          /\ s'.L1RH + s'.L2RH + s'.L2RM = issued'.reads
          /\ s'.L1WH + s'.L2WH + s'.L2WM = issued'.writes

C10_OneOfSix == [][C10_Step]_vars

\* C10 witness: two memory misses, an L2 read hit and an L1 write hit
C10_Witness ==
    /\ TwoLevel
    /\ s.L2RM = 2 /\ s.L2RH = 1 /\ s.L1WH = 1

\* the two-level sets an address designates
L1TargetMap(addr) == L1Maps[CacheL1Set(CacheLine(addr))]
L1TargetList(addr) == L1Lists[CacheL1Set(CacheLine(addr))]
L2TargetMap(addr) == L2Maps[CacheL2Bank(CacheLine(addr))][CacheL2Set(CacheLine(addr))]
L2TargetList(addr) == L2Lists[CacheL2Bank(CacheLine(addr))][CacheL2Set(CacheLine(addr))]
L1TargetMapAfter(addr) == L1Maps'[CacheL1Set(CacheLine(addr))]
L1TargetListAfter(addr) == L1Lists'[CacheL1Set(CacheLine(addr))]
L2TargetMapAfter(addr) == L2Maps'[CacheL2Bank(CacheLine(addr))][CacheL2Set(CacheLine(addr))]
L2TargetListAfter(addr) == L2Lists'[CacheL2Bank(CacheLine(addr))][CacheL2Set(CacheLine(addr))]

WasL1Resident(addr) == CacheLine(addr) \in Resident(L1TargetMap(addr))
WasL2Resident(addr) == CacheLine(addr) \in Resident(L2TargetMap(addr))

\* C11: a two-level access is classified by residency before the access, in
\* priority order: the L1 hit counter iff the line was resident in its L1
\* set; else the L2 hit counter iff it was resident in its L2 (bank, set);
\* else the memory-miss counter.  The read or the write counter is the one of
\* the current access's isWrite.
C11_Step ==
    \A addr \in Addrs, isWrite \in BOOLEAN :
        LRUCache_access(addr, isWrite) =>
            LET l1 == IF isWrite THEN "L1WH" ELSE "L1RH"
                l2 == IF isWrite THEN "L2WH" ELSE "L2RH"
                mem == IF isWrite THEN "L2WM" ELSE "L2RM"
            IN OnlyAdvances(IF WasL1Resident(addr) THEN l1
                            ELSE IF WasL2Resident(addr) THEN l2
                            ELSE mem, CacheCounters)

C11_ClassifiedByPriority == [][C11_Step]_vars

\* C11 witness: two lines written miss, the first one, evicted from L1 and
\* still in L2, is an L2 write hit, and a read of the line it installed is an
\* L1 read hit
C11_Witness ==
    /\ TwoLevel
    /\ s.L2WM = 2 /\ s.L2WH = 1 /\ s.L1RH = 1
    /\ written = {recency[k] : k \in 1..Len(recency)}
    /\ Len(recency) = 2

\* the lines of a set, least recently used first
Order(list) == [i \in 1..Len(list) |-> list[i].line]

\* a line is the most recently used line of a set
IsMRU(line, map, list) ==
    /\ line \in Resident(map)
    /\ Len(list) > 0
    /\ list[Len(list)].line = line

\* C12: both levels are touched on every access whatever the L1 result:
\* after every trace, each L1 set holds the lines, in the order, of the same
\* set of a standalone LRUSimpleCache(L1NLines, L1NWays, 1 bank,
\* allocate-on-any-access) fed the whole trace, each L2 (bank, set) those of
\* a standalone LRUSimpleCache(L2NLines, L2NWays, L2NBanks), and the line
\* accessed last is the MRU line of its L1 set and of its L2 set.
C12_BothLevelsTouched ==
    /\ DOMAIN L1Maps = DOMAIN ref.l1.maps[0]
    /\ \A i \in DOMAIN L1Maps :
          /\ Resident(L1Maps[i]) = Resident(ref.l1.maps[0][i])
          /\ Order(L1Lists[i]) = Order(ref.l1.lists[0][i])
    /\ DOMAIN L2Maps = DOMAIN ref.l2.maps
    /\ \A b \in DOMAIN L2Maps :
          /\ DOMAIN L2Maps[b] = DOMAIN ref.l2.maps[b]
          /\ \A i \in DOMAIN L2Maps[b] :
                /\ Resident(L2Maps[b][i]) = Resident(ref.l2.maps[b][i])
                /\ Order(L2Lists[b][i]) = Order(ref.l2.lists[b][i])
    /\ Len(ref.trace) > 0 =>
          LET addr == ref.trace[Len(ref.trace)].addr
          IN /\ IsMRU(CacheLine(addr), L1TargetMap(addr), L1TargetList(addr))
             /\ IsMRU(CacheLine(addr), L2TargetMap(addr), L2TargetList(addr))

\* C12 witness: the last access was an L1 hit, and it moved its line to the
\* MRU end of an L2 set of two lines that had it at the LRU end
C12_Witness ==
    /\ TwoLevel
    /\ cfg.L2NWays = 2
    /\ s.L1RH + s.L1WH >= 1
    /\ Len(ref.trace) = 4
    /\ Len(recency) = 2
    /\ ref.trace[1].addr = ref.trace[3].addr
    /\ ref.trace[3].addr = ref.trace[4].addr
    /\ Len(L2Lists[0][0]) = 2

\* the lines resident in some L1 set, and in some L2 (bank, set)
L1Resident == UNION {Resident(L1Maps[i]) : i \in DOMAIN L1Maps}
L2Resident ==
    UNION {UNION {Resident(L2Maps[b][i]) : i \in DOMAIN L2Maps[b]} :
              b \in DOMAIN L2Maps}

\* the lines the accesses of the trace designate
TraceLines == {CacheLine(ref.trace[k].addr) : k \in 1..Len(ref.trace)}

\* C13, as stated: the two-level cache is strictly inclusive: after any
\* sequence of accesses every line resident in L1 is also resident in L2.
C13_Inclusive == TwoLevel => L1Resident \subseteq L2Resident

\* C13, amended: every line resident in L1 has been installed in L2 (it is
\* a line of the trace, and every access leaves its line resident in both
\* levels); a line L2 has evicted since is not removed from L1.
C13_InstalledInBoth ==
    TwoLevel =>
        /\ L1Resident \subseteq TraceLines
        /\ L2Resident \subseteq TraceLines
        /\ Len(ref.trace) > 0 =>
              LET addr == ref.trace[Len(ref.trace)].addr
              IN /\ CacheLine(addr) \in Resident(L1TargetMap(addr))
                 /\ CacheLine(addr) \in Resident(L2TargetMap(addr))

\* C13 witness: L1 holds a line that L2 has evicted, and the last access
\* was an L1 hit on a line L2 had evicted
C13_Witness ==
    /\ TwoLevel
    /\ Len(ref.trace) = 3
    /\ ref.trace[1].addr = ref.trace[3].addr
    /\ s.L1RH = 1
    /\ s.L2RM = 2
    /\ ~(L1Resident \subseteq L2Resident)

\* the lines of a trace, in the order of the accesses
LinesOf(trace) == [k \in 1..Len(trace) |-> CacheLine(trace[k].addr)]

\* the lines are pairwise distinct
Distinct(lines) == \A i, j \in 1..Len(lines) : lines[i] = lines[j] => i = j

\* the trace is `sweeps' sweeps, in the same order, over n distinct lines
IsSweeps(trace, sweeps, n) ==
    /\ n > 0
    /\ Len(trace) = sweeps * n
    /\ Distinct(SubSeq(LinesOf(trace), 1, n))
    /\ \A k \in 1..Len(trace) :
          LinesOf(trace)[k] = LinesOf(trace)[((k - 1) % n) + 1]

\* how many of the first n lines of the trace each L1 set, and each L2
\* (bank, set), receives
L1Load(trace, n, i) ==
    Cardinality({l \in {LinesOf(trace)[k] : k \in 1..n} : CacheL1Set(l) = i})
L2Load(trace, n, b, i) ==
    Cardinality({l \in {LinesOf(trace)[k] : k \in 1..n} :
                    CacheL2Bank(l) = b /\ CacheL2Set(l) = i})

\* every L1 set that receives a line receives more than L1NWays of them
L1Oversubscribed(trace, n) ==
    \A i \in DOMAIN L1Maps :
        L1Load(trace, n, i) > 0 => L1Load(trace, n, i) > cfg.L1NWays

\* every L2 (bank, set) receives at most L2NWays lines
L2Fits(trace, n) ==
    \A b \in DOMAIN L2Maps : \A i \in DOMAIN L2Maps[b] :
        L2Load(trace, n, b, i) <= cfg.L2NWays

\* C14: an access to a line that has left its L1 set and is still in its L2
\* (bank, set) is counted as an L2 hit; and after two sweeps, in the same
\* order, over n distinct lines of which every L2 (bank, set) receives at
\* most L2NWays and every L1 set that receives any receives more than
\* L1NWays, the first sweep was n memory misses and the second n L2 hits,
\* with no L1 hit.
C14_Step ==
    \A addr \in Addrs, isWrite \in BOOLEAN :
        Pair_access(addr, isWrite) =>
            /\ (~WasL1Resident(addr) /\ WasL2Resident(addr)) =>
                  Advances(IF isWrite THEN "L2WH" ELSE "L2RH")
            /\ \A n \in 1..Len(ref'.trace) :
                  (/\ IsSweeps(ref'.trace, 2, n)
                   /\ L2Fits(ref'.trace, n)
                   /\ L1Oversubscribed(ref'.trace, n))
                  => /\ s'.L1RH + s'.L1WH = 0
                     /\ s'.L2RM + s'.L2WM = n
                     /\ s'.L2RH + s'.L2WH = n
                     /\ s.L2RH + s.L2WH = n - 1

C14_L2HitAfterL1Eviction == [][C14_Step]_vars

\* C14 witness: two sweeps over two lines that share a one-way L1 set and
\* fit in L2 have been made
C14_Witness ==
    /\ TwoLevel
    /\ IsSweeps(ref.trace, 2, 2)
    /\ L2Fits(ref.trace, 2)
    /\ L1Oversubscribed(ref.trace, 2)
    /\ s.L2RH + s.L2WH = 2

\* the trace repeats, in the same order, a sweep over n distinct lines, at
\* least once
IsRepeatedSweep(trace, n) ==
    /\ n > 0
    /\ Len(trace) >= n
    /\ Distinct(SubSeq(LinesOf(trace), 1, n))
    /\ \A k \in 1..Len(trace) :
          LinesOf(trace)[k] = LinesOf(trace)[((k - 1) % n) + 1]

\* every L2 (bank, set) that receives a line receives more than L2NWays
L2Oversubscribed(trace, n) ==
    \A b \in DOMAIN L2Maps : \A i \in DOMAIN L2Maps[b] :
        L2Load(trace, n, b, i) > 0 => L2Load(trace, n, b, i) > cfg.L2NWays

\* C15: while the trace repeats, in the same order, a sweep over distinct
\* lines of which every L1 set and every L2 (bank, set) that receives any
\* receives more than its number of ways, every access is a memory miss:
\* no L1 hit, no L2 hit, L2RM is the number of reads and L2WM of writes.
C15_OversubscribedAllMiss ==
    TwoLevel =>
        \A n \in 1..Len(ref.trace) :
            (/\ IsRepeatedSweep(ref.trace, n)
             /\ L1Oversubscribed(ref.trace, n)
             /\ L2Oversubscribed(ref.trace, n))
            => /\ s.L1RH = 0 /\ s.L1WH = 0
               /\ s.L2RH = 0 /\ s.L2WH = 0
               /\ s.L2RM = issued.reads
               /\ s.L2WM = issued.writes
               /\ s.L2RM + s.L2WM = Len(ref.trace)

\* C15 witness: two sweeps of reads over two lines that share a one-way L1
\* set and a one-way L2 set
C15_Witness ==
    /\ TwoLevel
    /\ Len(ref.trace) = 4
    /\ IsRepeatedSweep(ref.trace, 2)
    /\ L1Oversubscribed(ref.trace, 2)
    /\ L2Oversubscribed(ref.trace, 2)
    /\ s.L2RM = 4

\* the line size the shift of addrToLineAddr stands for
LineBytes == Pow2(cfg.cacheLineSizeLog2)

\* the number of the line a small byte address lies in: floor(a / line bytes)
LineNumber(addr) == addr[1] \div LineBytes

\* the trace reads every byte of K consecutive aligned lines once, in address
\* order, starting at line `first'
IsByteSweep(trace, first, K) ==
    /\ Len(trace) = K * LineBytes
    /\ \A k \in 1..Len(trace) :
          /\ trace[k].addr = Word(first * LineBytes + (k - 1))
          /\ ~trace[k].isWrite

\* the counters after such a sweep on a fresh instance
ByteSweepCounts ==
    Len(ref.trace) > 0 =>
        LET first == LineNumber(ref.trace[1].addr)
            K == Len(ref.trace) \div LineBytes
        IN IsByteSweep(ref.trace, first, K) =>
              /\ s.L2RM = K
              /\ s.L1RH = K * (LineBytes - 1)
              /\ s.L2RH = 0 /\ s.L1WH = 0 /\ s.L2WH = 0 /\ s.L2WM = 0

\* C16: accesses are resolved at line granularity: an access (the one the
\* step appends to the trace) that immediately follows an access to a byte of the same line (the same
\* floor(address / line bytes)) is an L1 hit; and after every byte of K
\* consecutive aligned lines has been read once, in address order, on a fresh
\* two-level instance, L2RM = K, L1RH = K * (line bytes - 1) and the other
\* four counters are 0.
C16_Step ==
    /\ (Len(ref.trace) > 0 /\ Len(ref'.trace) = Len(ref.trace) + 1) =>
          LET before == ref.trace[Len(ref.trace)]
              this == ref'.trace[Len(ref'.trace)]
          IN LineNumber(before.addr) = LineNumber(this.addr) =>
                OnlyAdvances(IF this.isWrite THEN "L1WH" ELSE "L1RH",
                             CacheCounters)
    /\ ByteSweepCounts'

C16_LineGranularity == [][C16_Step]_vars

\* C16 witness: the four bytes of two lines of two bytes have been read in
\* address order
C16_Witness ==
    /\ TwoLevel
    /\ LineBytes = 2
    /\ IsByteSweep(ref.trace, 0, 2)
    /\ s.L2RM = 2
    /\ s.L1RH = 2

\* the sets of an instance, compared by the lines they hold and their order
SameSets(m1, l1, m2, l2) ==
    /\ DOMAIN m1 = DOMAIN m2
    /\ DOMAIN l1 = DOMAIN l2
    /\ \A i \in DOMAIN m1 :
          /\ Resident(m1[i]) = Resident(m2[i])
          /\ Order(l1[i]) = Order(l2[i])

SameBankedSets(m1, l1, m2, l2) ==
    /\ DOMAIN m1 = DOMAIN m2
    /\ DOMAIN l1 = DOMAIN l2
    /\ \A b \in DOMAIN m1 : SameSets(m1[b], l1[b], m2[b], l2[b])

\* the sets of the instance are those of the instance inst
SetsAsIn(inst) ==
    /\ Simple => SameBankedSets(maps, lists, inst.maps, inst.lists)
    /\ TwoLevel =>
          /\ SameSets(L1Maps, L1Lists, inst.L1Maps, inst.L1Lists)
          /\ SameBankedSets(L2Maps, L2Lists, inst.L2Maps, inst.L2Lists)

\* the counters an access can advance
AccessCounters == IF Simple THEN SimpleCounters \cup {"nE"} ELSE CacheCounters

\* C17: zeroStatsCounters sets every counter to zero (RH, RM, WH, WM, nE;
\* the six counters of the two-level cache) and empties the miss log, and
\* leaves the contents and order of every set unchanged; so the sets stay
\* those of an instance given the same accesses and never zeroed, and every
\* access advances the same counter (the same hit, miss or eviction) as in
\* that instance.
C17_Step ==
    /\ SimpleCache_zeroStatsCounters =>
          /\ \A f \in SimpleCounters \cup {"nE"} : s'[f] = 0
          /\ misses' = EmptyMap
          /\ maps' = maps /\ lists' = lists
    /\ Cache_zeroStatsCounters =>
          /\ \A f \in CacheCounters : s'[f] = 0
          /\ L1Maps' = L1Maps /\ L1Lists' = L1Lists
          /\ L2Maps' = L2Maps /\ L2Lists' = L2Lists
    /\ SetsAsIn(ref.unzeroed)'
    /\ ref'.unzeroed # ref.unzeroed =>
          \A f \in AccessCounters :
              s'[f] - s[f] = ref'.unzeroed.s[f] - ref.unzeroed.s[f]

C17_ZeroKeepsSets == [][C17_Step]_vars

\* C17 witness: a single-level instance missed, was zeroed, and then hit on
\* the line the miss had installed
C17_Witness ==
    /\ Simple
    /\ s.RH + s.WH = 1
    /\ s.RM + s.WM = 0
    /\ ref.unzeroed.s.RM + ref.unzeroed.s.WM = 1
    /\ ref.unzeroed.s.RH + ref.unzeroed.s.WH = 1

ArgLines == ref.args[1]
ArgWays == ref.args[2]
ArgBanks == ref.args[3]
ArgLineBytes == ref.args[4]
ArgL2Lines == ref.args[3]
ArgL2Ways == ref.args[4]
ArgL2Banks == ref.args[5]
ArgCacheLineBytes == ref.args[6]

\* a way or bank count does not divide its line count
NotDivisible ==
    IF ref.class = "LRUSimpleCache"
    THEN ArgLines % ArgWays # 0 \/ ArgLines % ArgBanks # 0
    ELSE \/ ArgLines % ArgWays # 0
         \/ ArgL2Lines % ArgL2Ways # 0
         \/ ArgL2Lines % ArgL2Banks # 0

IsPowerOfTwo(n) == \E k \in 0..ChunkBits : n = Pow2(k)

\* a number of sets, or the line size, is not a power of two
NotPowerOfTwo ==
    IF ref.class = "LRUSimpleCache"
    THEN \/ ~IsPowerOfTwo((ArgLines \div ArgBanks) \div ArgWays)
         \/ ~IsPowerOfTwo(ArgLineBytes)
    ELSE \/ ~IsPowerOfTwo(ArgLines \div ArgWays)
         \/ ~IsPowerOfTwo((ArgL2Lines \div ArgL2Banks) \div ArgL2Ways)
         \/ ~IsPowerOfTwo(ArgCacheLineBytes)

\* C18: a constructor call whose line count is not divisible by its ways or
\* by its banks (two-level: L1NLines by L1NWays, L2NLines by L2NWays or by
\* L2NBanks) fails: the process is aborted, there is no instance, and no
\* method is ever called on one.
C18_NotDivisibleFails ==
    NotDivisible => (Aborted /\ nCalls = 0)

\* C18 witness: the call LRUCache(1, 1, 3, 1, 2, 1), whose two L2 banks do
\* not divide the three L2 lines, was aborted
C18_Witness ==
    /\ ref.class = "LRUCache"
    /\ ArgL2Lines % ArgL2Banks # 0
    /\ ArgL2Lines % ArgL2Ways = 0
    /\ cache = "aborted"

\* C19, as stated: a constructor call whose number of sets per bank (or of
\* L1 sets), or whose line size, is not a power of two fails; it is never
\* accepted.
C19_NotPowerOfTwoFails == NotPowerOfTwo => Aborted

\* every set of the instance is as it was before the step
SetsKept ==
    /\ maps' = maps /\ lists' = lists
    /\ L1Maps' = L1Maps /\ L1Lists' = L1Lists
    /\ L2Maps' = L2Maps /\ L2Lists' = L2Lists

\* the derived totals are those of the raw counters
TotalsMatch(st) ==
    IF Simple
    THEN st.nR = st.RH + st.RM /\ st.nW = st.WH + st.WM
    ELSE /\ st.nR = st.L1RH + st.L2RH + st.L2RM
         /\ st.nW = st.L1WH + st.L2WH + st.L2WM

\* C21: computeStats sets computedFinalStats and the totals nR = RH + RM,
\* nW = WH + WM (two-level: nR = L1RH + L2RH + L2RM, nW = L1WH + L2WH + L2WM),
\* changes no raw counter, no set and not the miss log, and a second call
\* right after the first leaves every field as it was.
C21_Step ==
    ref'.method = "computeStats" =>
        /\ s'.computedFinalStats
        /\ TotalsMatch(s')
        /\ \A f \in AccessCounters : s'[f] = s[f]
        /\ SetsKept
        /\ misses' = misses /\ cfg' = cfg
        /\ ref.method = "computeStats" => s' = s

C21_ComputeStatsIdempotent == [][C21_Step]_vars

\* C21 witness: computeStats was called twice in a row on an instance that
\* had counted a read and a write
C21_Witness ==
    /\ ref.method = "computeStats" /\ ref.again
    /\ s.computedFinalStats
    /\ s.nR > 0 /\ s.nW > 0

\* the dump methods, as Call names them
TextDumps == {"dumpTextStats(FILE *)", "dumpTextStats(path)"}
Dumps == TextDumps \cup {"dumpBinaryStats"}

\* C22: after every dump that returned (dumpTextStats to a stream,
\* dumpTextStats to a path, dumpBinaryStats to a path), computedFinalStats
\* is true and the derived totals are those of the raw counters, the dump
\* having called computeStats first when the flag was false.
C22_DumpComputesFirst ==
    (ref.method \in Dumps /\ ref.ended = "returned") =>
        /\ s.computedFinalStats
        /\ TotalsMatch(s)

\* the dumps that open a file themselves
PathDumps == {"dumpTextStats(path)", "dumpBinaryStats"}

\* C23: when the file of dumpTextStats(path) or dumpBinaryStats(path) cannot
\* be opened or written, the call ends by reporting an error to its caller,
\* and the sets, the counters and the miss log are as before the call.
C23_Step ==
    (ref'.method \in PathDumps /\ ref'.file # "written") =>
        /\ ref'.ended = "error"
        /\ cache' = cache /\ s' = s /\ misses' = misses
        /\ SetsKept

C23_IOErrorReported == [][C23_Step]_vars

\* the sum of one count over the entries `lines' of the miss log
RECURSIVE LogTotal(_, _, _)
LogTotal(ms, lines, count) ==
    IF lines = {} THEN 0
    ELSE LET k == CHOOSE x \in lines : TRUE
         IN ms[k][count] + LogTotal(ms, lines \ {k}, count)

\* C24: in the miss log of the single-level cache, the nReads of a line is
\* the number of read accesses to it that missed and its nWrites the number
\* of times it was evicted, both since the construction or the last
\* zeroStatsCounters; a line has an entry iff one of the two is positive; a
\* write miss leaves the entry of the accessed line as it was; the nReads
\* add up to RM and the nWrites to nE.
C24_Step ==
    /\ DOMAIN misses' = (DOMAIN ref'.readMisses) \cup (DOMAIN ref'.evictions)
    /\ \A l \in DOMAIN misses' :
          /\ misses'[l].nReads = EventCount(ref'.readMisses, l)
          /\ misses'[l].nWrites = EventCount(ref'.evictions, l)
          /\ misses'[l].nReads > 0 \/ misses'[l].nWrites > 0
    /\ s'.WM = s.WM + 1 =>
          LET line == recency'[Len(recency')]
          IN /\ line \in DOMAIN misses' <=> line \in DOMAIN misses
             /\ line \in DOMAIN misses => misses'[line] = misses[line]
    /\ LogTotal(misses', DOMAIN misses', "nReads") = s'.RM
    /\ LogTotal(misses', DOMAIN misses', "nWrites") = s'.nE

C24_MissLogAccounting == [][C24_Step]_vars

\* C24 witness: one line missed on a read and was evicted later, and a line
\* that missed on a write has no entry
C24_Witness ==
    /\ Simple
    /\ \E l \in DOMAIN misses : misses[l].nReads > 0 /\ misses[l].nWrites > 0
    /\ s.WM > 0
    /\ \E l \in written : l \notin DOMAIN misses

\* the calls made so far are accesses: the instance is fresh but for a trace
OnlyAccessed == nCalls = issued.reads + issued.writes

\* the lines accessed so far share one bank and one set of the single-level
\* instance
OneSimpleSet(order) ==
    \A i, j \in 1..Len(order) :
        /\ SimpleBank(order[i]) = SimpleBank(order[j])
        /\ SimpleSet(order[i]) = SimpleSet(order[j])

\* the step is the first access to the line that is one more than the ways
\* of the set, in a trace of lines of one set
OneLineTooMany ==
    /\ Simple /\ OnlyAccessed' /\ OneSimpleSet(recency')
    /\ Len(recency) = cfg.nWays /\ Len(recency') = cfg.nWays + 1

\* as many distinct lines as ways, or fewer, leave nE = 0
C25_NoEvictionUpToWays ==
    (Simple /\ OnlyAccessed' /\ OneSimpleSet(recency') /\ Len(recency') <= cfg.nWays)
        => s'.nE = 0

\* C25 as stated: on a fresh single-level cache, a trace that touches `ways`
\* distinct lines of one set leaves nE = 0, and the access to the
\* (ways+1)-th distinct line of that set leaves nE = 1.
C25_StepAnyMode ==
    /\ C25_NoEvictionUpToWays
    /\ OneLineTooMany => s'.nE = 1

C25_FillThenEvictAnyMode == [][C25_StepAnyMode]_vars

\* C25 amended: the first half holds in both modes; the (ways+1)-th distinct
\* line leaves nE = 1 in allocate-on-any-access mode, and in
\* allocate-on-writes-only mode it leaves nE = 1 when it is written and the
\* set is full, and nE = 0 otherwise.
C25_Step ==
    /\ C25_NoEvictionUpToWays
    /\ OneLineTooMany =>
          LET line == recency'[Len(recency')]
              full == Cardinality(Resident(maps[SimpleBank(line)][SimpleSet(line)]))
                          = cfg.nWays
              isWrite == issued'.writes = issued.writes + 1
          IN IF ~cfg.allocateOnWritesOnly \/ (isWrite /\ full)
             THEN s'.nE = 1
             ELSE s'.nE = 0

C25_FillThenEvict == [][C25_Step]_vars

\* C25 witness: an allocate-on-any-access instance was given ways + 1
\* accesses, each to another line of one set, and counts one eviction
C25_Witness ==
    /\ Simple /\ ~cfg.allocateOnWritesOnly
    /\ OnlyAccessed /\ OneSimpleSet(recency)
    /\ nCalls = cfg.nWays + 1 /\ Len(recency) = cfg.nWays + 1
    /\ s.nE = 1

(* ------------- an instance beside a reference LRU queue --------------- *)

\* constructor arguments of the single-level instances with one bank and one
\* set: nLines = nWays, nBanks = 1
QueueArgs == {<<1, 1, 1, 1>>, <<2, 2, 1, 1>>, <<3, 3, 1, 1>>, <<2, 2, 1, 2>>}

\* A reference LRU queue of capacity `ways' over line numbers, least recently
\* used first: an access to a line of the queue is a hit and moves it to the
\* end; another line is a miss, drops the head when the queue is full (the
\* victim) and joins at the end.
LRUQueue_accessed(queue, ways, line) ==
    LET hit == \E i \in 1..Len(queue) : queue[i] = line
        rest == SelectSeq(queue, LAMBDA l : l # line)
        full == Len(queue) = ways
    IN [queue |-> IF hit THEN Append(rest, line)
                  ELSE IF full THEN Append(Tail(queue), line)
                  ELSE Append(queue, line),
        hit |-> hit,
        victim |-> IF ~hit /\ full THEN {Head(queue)} ELSE {}]

InitQueue ==
    /\ \E a \in QueueArgs :
          /\ SimpleCache_asserts(a[1], a[2], a[3])
          /\ LRUSimpleCache_new(a, FALSE)
    /\ NoHistory
    /\ ref = [queue |-> << >>, hit |-> FALSE, victim |-> {}]

Queue_access(addr, isWrite) ==
    /\ LRUSimpleCache_access(addr, isWrite)
    /\ ref' = LRUQueue_accessed(ref.queue, cfg.nWays, LineNumber(addr))

QueueNext == \E addr \in Addrs, isWrite \in BOOLEAN : Queue_access(addr, isWrite)

SpecQueue == InitQueue /\ [][QueueNext]_vars

\* the line addresses of a sequence, or a set, of line numbers
AsLines(queue) == [i \in 1..Len(queue) |-> Word(queue[i])]
AsLineSet(numbers) == {Word(n) : n \in numbers}

\* C26: a single-level allocate-on-any-access cache with one bank and one
\* set behaves as a reference LRU queue of capacity nWays: after every
\* access the resident lines and their order are those of the queue, the
\* access was counted as a hit iff it hit in the queue, and the line that
\* left the set, counted in nE and logged as written, is the victim of the
\* queue.
C26_Step ==
    LET evicted == Resident(maps[0][0]) \ Resident(maps'[0][0])
    IN /\ cfg.nBanks = 1 /\ cfg.nSetsPerBank = 1
       /\ Order(lists'[0][0]) = AsLines(ref'.queue)
       /\ Resident(maps'[0][0]) = {Word(ref'.queue[i]) : i \in 1..Len(ref'.queue)}
       /\ ref'.hit <=> s'.RH + s'.WH = s.RH + s.WH + 1
       /\ ~ref'.hit <=> s'.RM + s'.WM = s.RM + s.WM + 1
       /\ evicted = AsLineSet(ref'.victim)
       /\ s'.nE = s.nE + Cardinality(ref'.victim)
       /\ \A v \in AsLineSet(ref'.victim) :
             /\ v \in DOMAIN misses'
             /\ misses'[v].nWrites =
                    (IF v \in DOMAIN misses THEN misses[v].nWrites ELSE 0) + 1

C26_IsLRUQueue == [][C26_Step]_vars

\* C26 witness: the set of two ways holds two lines in an order other than
\* that of their first accesses, after a hit and after an eviction
C26_Witness ==
    /\ Simple /\ cfg.nWays = 2
    /\ ref.queue = <<2, 1>>
    /\ Order(lists[0][0]) = <<Word(2), Word(1)>>
    /\ s.nE = 1
    /\ s.RH + s.WH = 1

(* ------------- addresses of the whole width of the word --------------- *)

\* constructor arguments of the instances given wide addresses: lines of 1, 2
\* and 4 bytes, one and two banks, one and two sets per bank
WideArgs == {<<2, 1, 2, 2>>, <<2, 1, 1, 4>>, <<2, 2, 1, 1>>}

\* addresses of an access: 0, 3, 2^63, 2^63 + 2 and 2^64 - 1
WideAddrs ==
    {<<0, 0, 0, 0>>, <<3, 0, 0, 0>>, <<0, 0, 0, SignBit>>, <<2, 0, 0, SignBit>>,
     <<ChunkMask, ChunkMask, ChunkMask, ChunkMask>>}

\* ref.addr: the address of the last access
InitWide ==
    /\ \E a \in WideArgs :
          /\ SimpleCache_asserts(a[1], a[2], a[3])
          /\ LRUSimpleCache_new(a, FALSE)
    /\ NoHistory
    /\ ref = [addr |-> Word(0)]

Wide_access(addr, isWrite) ==
    /\ LRUSimpleCache_access(addr, isWrite)
    /\ ref' = [addr |-> addr]

WideNext == \E addr \in WideAddrs, isWrite \in BOOLEAN : Wide_access(addr, isWrite)

SpecWide == InitWide /\ [][WideNext]_vars

\* the unsigned word a divided by a small d, by long division from the most
\* significant chunk: the remainder carried into chunk i, and the quotient
RECURSIVE Carried(_, _, _)
Carried(a, d, i) ==
    IF i > NChunks THEN 0
    ELSE (Carried(a, d, i + 1) * Pow2(ChunkBits) + a[i]) % d

FloorDiv(a, d) ==
    <<(Carried(a, d, 2) * Pow2(ChunkBits) + a[1]) \div d,
      (Carried(a, d, 3) * Pow2(ChunkBits) + a[2]) \div d,
      (Carried(a, d, 4) * Pow2(ChunkBits) + a[3]) \div d,
      (Carried(a, d, 5) * Pow2(ChunkBits) + a[4]) \div d>>

\* the unsigned word a modulo a small d
Modulo(a, d) == Carried(a, d, 1)

\* C27: for every unsigned address of the word width, addresses with the top
\* bit set included, the line an access uses is floor(address / line bytes),
\* its set is that line modulo the sets per bank and its bank the hash of
\* that line modulo the banks, both in range: after the access that line is
\* the most recently used line of that set of that bank.
C27_LineIsFloor ==
    nCalls > 0 =>
        LET line == FloorDiv(ref.addr, LineBytes)
            set == Modulo(line, cfg.nSetsPerBank)
            bank == SimpleCache_fastHash(line, cfg.nBanks)
        IN /\ set \in SimpleSets /\ bank \in SimpleBanks
           /\ IsMRU(line, maps[bank][set], lists[bank][set])

\* the number of lines resident in the sets `sets' (pairs <<bank, set>>) of
\* the single-level instance
RECURSIVE Occupancy(_, _)
Occupancy(ms, sets) ==
    IF sets = {} THEN 0
    ELSE LET p == CHOOSE x \in sets : TRUE
         IN Cardinality(Resident(ms[p[1]][p[2]])) + Occupancy(ms, sets \ {p})

AllSimpleSets == SimpleBanks \X SimpleSets

\* C28: on a single-level cache that was never zeroed, after every access
\* the lines resident in all sets plus nE are RM + WM in
\* allocate-on-any-access mode and WM in allocate-on-writes-only mode; and no
\* call lowers the occupancy of a set.
C28_Step ==
    /\ OnlyAccessed' =>
          Occupancy(maps', AllSimpleSets) + s'.nE =
              IF cfg.allocateOnWritesOnly THEN s'.WM ELSE s'.RM + s'.WM
    /\ \A p \in AllSimpleSets :
          Cardinality(Resident(maps'[p[1]][p[2]])) >=
              Cardinality(Resident(maps[p[1]][p[2]]))

C28_ResidentsAndEvictions == [][C28_Step]_vars

\* C28 witness: a never zeroed instance in allocate-on-writes-only mode holds
\* a line, has evicted another and has missed on a read
C28_Witness ==
    /\ Simple /\ cfg.allocateOnWritesOnly
    /\ OnlyAccessed
    /\ s.nE = 1 /\ s.RM > 0
    /\ Occupancy(maps, AllSimpleSets) + s.nE = s.WM

\* the derived fields of the stats
DerivedFields ==
    IF Simple THEN {"nR", "nW", "nH", "nM", "RHP", "RMP", "WHP", "WMP", "EP"}
    ELSE {"nR", "nW", "L1RHP", "L2RHP", "L2RMP", "L1WHP", "L2WHP", "L2WMP"}

\* C29: an access keeps computedFinalStats and every derived field as they
\* are, so that the flag can be true while nR, nW, nH, nM are those of an
\* earlier computeStats; a dumpTextStats called with the flag true changes
\* no field and prints the stored derived values without a notice; the flag
\* goes from true to false in zeroStatsCounters only.
C29_Step ==
    /\ ref'.method = "access" =>
          /\ s'.computedFinalStats = s.computedFinalStats
          /\ \A f \in DerivedFields : s'[f] = s[f]
    /\ (ref'.method \in TextDumps /\ ref'.ended = "returned"
            /\ s.computedFinalStats) =>
          /\ s' = s
          /\ ref'.file = "written" =>
                /\ ref'.out[1] = StatsBanner
                /\ Simple => ref'.out[2].pct = Percent(s.RHP)
                /\ TwoLevel => ref'.out[2].RHpct = Percent(s.L1RHP)
    /\ (s.computedFinalStats /\ ~s'.computedFinalStats) =>
          ref'.method = "zeroStatsCounters"

C29_StaleAfterAccess == [][C29_Step]_vars

\* C29 witness: after computeStats and a read, dumpTextStats has printed and
\* returned with the flag true and nR still 0 beside RH + RM = 1
C29_Witness ==
    /\ Simple
    /\ ref.method \in TextDumps /\ ref.ended = "returned" /\ ref.file = "written"
    /\ s.computedFinalStats
    /\ s.nR = 0 /\ s.RH + s.RM = 1
    /\ ref.out[1] = StatsBanner

====
